---- MODULE Spec2Model ----
(***************************************************************************)
(* A model of the ticket normaliser (utils/data_processor.py) and of the   *)
(* rule-based root cause analysis engine (utils/rca_analyzer.py).          *)
(*                                                                         *)
(* Texts are TLA+ strings handled character by character, so that          *)
(* lower-casing, punctuation stripping, tokenising, substring search and   *)
(* the regular expressions of the source are computed, not assumed.        *)
(* A table cell is a record [k, s, n]: k is the kind of the value          *)
(* ("nan" a missing value / NaT, "str" a string in s, "num" a number in n, *)
(* "ts" a timestamp in n, in minutes of the proleptic Gregorian calendar,  *)
(* "dur" a duration in n, in sixtieths of an hour).                        *)
(***************************************************************************)
EXTENDS Integers, Sequences, FiniteSets, TLC

(***************************************************************************)
(* Characters and strings                                                  *)
(***************************************************************************)
Digits == "0123456789"
Lowers == "abcdefghijklmnopqrstuvwxyz"
Uppers == "ABCDEFGHIJKLMNOPQRSTUVWXYZ"

Ch(s, i) == SubSeq(s, i, i)

From(s, i) == SubSeq(s, i, Len(s))

CharsOf(alphabet) == {Ch(alphabet, i) : i \in 1..Len(alphabet)}

DigitChars == CharsOf(Digits)
LowerChars == CharsOf(Lowers)
UpperChars == CharsOf(Uppers)

DigitValue == [c \in DigitChars |-> (CHOOSE i \in 1..10 : Ch(Digits, i) = c) - 1]
ToLower == [c \in UpperChars |-> Ch(Lowers, CHOOSE i \in 1..26 : Ch(Uppers, i) = c)]
ToUpper == [c \in LowerChars |-> Ch(Uppers, CHOOSE i \in 1..26 : Ch(Lowers, i) = c)]

IsDigit(c) == c \in DigitChars

IsLetter(c) == c \in LowerChars \/ c \in UpperChars

IsSpace(c) == c = " "

\* \w of Python's re on the characters the model uses.
IsWordChar(c) == IsLetter(c) \/ IsDigit(c) \/ c = "_"

LowerCh(c) == IF c \in UpperChars THEN ToLower[c] ELSE c

UpperCh(c) == IF c \in LowerChars THEN ToUpper[c] ELSE c

\* str.lower(), character by character.
RECURSIVE LowerOf(_)
LowerOf(s) == IF s = "" THEN "" ELSE LowerCh(Ch(s, 1)) \o LowerOf(From(s, 2))

\* str.capitalize(): first character upper-cased, the rest lower-cased.
Capitalize(s) == IF s = "" THEN "" ELSE UpperCh(Ch(s, 1)) \o LowerOf(From(s, 2))

RECURSIVE ReplaceCh(_, _, _)
ReplaceCh(s, old, new) ==
    IF s = "" THEN ""
    ELSE (IF Ch(s, 1) = old THEN new ELSE Ch(s, 1)) \o ReplaceCh(From(s, 2), old, new)

StartsAt(s, i, t) == i + Len(t) - 1 <= Len(s) /\ SubSeq(s, i, i + Len(t) - 1) = t

\* Substring test, case-sensitive.
Contains(s, t) == \E i \in 1..(Len(s) + 1) : StartsAt(s, i, t)

AllDigits(s) == Len(s) > 0 /\ \A i \in 1..Len(s) : IsDigit(Ch(s, i))

RECURSIVE StrToInt(_)
StrToInt(s) ==
    IF s = "" THEN 0
    ELSE 10 * StrToInt(SubSeq(s, 1, Len(s) - 1)) + DigitValue[Ch(s, Len(s))]

RECURSIVE IntToStr(_)
IntToStr(n) ==
    IF n < 10 THEN Ch(Digits, n + 1)
    ELSE IntToStr(n \div 10) \o Ch(Digits, (n % 10) + 1)

(***************************************************************************)
(* Sequences                                                               *)
(***************************************************************************)
Range(q) == {q[i] : i \in 1..Len(q)}

InSeq(x, q) == \E i \in 1..Len(q) : q[i] = x

FirstIndex(x, q) == CHOOSE i \in 1..Len(q) : q[i] = x /\ \A j \in 1..(i - 1) : q[j] # x

RECURSIVE FilterIdx(_, _, _)
\* The elements of q at the indices (in increasing order) that keep[] marks.
FilterIdx(q, keep, i) ==
    IF i > Len(q) THEN <<>>
    ELSE (IF keep[i] THEN <<q[i]>> ELSE <<>>) \o FilterIdx(q, keep, i + 1)

FirstN(q, n) == IF Len(q) <= n THEN q ELSE SubSeq(q, 1, n)

(***************************************************************************)
(* Calendar                                                                *)
(***************************************************************************)
IsLeap(y) == (y % 4 = 0 /\ y % 100 # 0) \/ y % 400 = 0

DaysInMonth(y, m) ==
    IF m = 2 THEN (IF IsLeap(y) THEN 29 ELSE 28)
    ELSE IF m \in {4, 6, 9, 11} THEN 30 ELSE 31

RECURSIVE DaysBeforeMonth(_, _)
DaysBeforeMonth(y, m) == IF m <= 1 THEN 0 ELSE DaysBeforeMonth(y, m - 1) + DaysInMonth(y, m - 1)

DaysBeforeYear(y) == 365 * (y - 1) + ((y - 1) \div 4) - ((y - 1) \div 100) + ((y - 1) \div 400)

\* pandas.Timestamp covers 1677-09-21 .. 2262-04-11; whole years are kept.
MinYear == 1678
MaxYear == 2261

ValidDate(y, m, d) ==
    /\ y >= MinYear /\ y <= MaxYear
    /\ m >= 1 /\ m <= 12
    /\ d >= 1 /\ d <= DaysInMonth(y, m)

MinutesPerDay == 1440

\* Minutes from 0001-01-01 00:00 to y-m-d hh:mi.
Stamp(y, m, d, hh, mi) ==
    (DaysBeforeYear(y) + DaysBeforeMonth(y, m) + (d - 1)) * MinutesPerDay + hh * 60 + mi

(***************************************************************************)
(* Cells                                                                   *)
(***************************************************************************)
NaN == [k |-> "nan", s |-> "", n |-> 0]
Str(x) == [k |-> "str", s |-> x, n |-> 0]
Num(x) == [k |-> "num", s |-> "", n |-> x]
Ts(x) == [k |-> "ts", s |-> "", n |-> x]
Dur(x) == [k |-> "dur", s |-> "", n |-> x]
\* Python's None, where a .get() default supplies it.
None == [k |-> "none", s |-> "", n |-> 0]

\* pd.isna / pd.notna
IsNa(c) == c.k = "nan"

\* str(value) of a cell, as astype(str) and str() give it.
CellStr(c) ==
    IF c.k = "str" THEN c.s
    ELSE IF c.k = "num" THEN IntToStr(c.n)
    ELSE IF c.k = "nan" THEN "nan"
    ELSE IF c.k = "none" THEN "None"
    ELSE "<time>"

\* pd.to_datetime(string, errors='coerce') on the strings the model holds:
\* "YYYY-MM-DD HH:MM" naming a calendar date and time parses, anything else
\* becomes NaT.
ParseStamp(s) ==
         IF /\ Len(s) = 16
            /\ AllDigits(SubSeq(s, 1, 4)) /\ Ch(s, 5) = "-"
            /\ AllDigits(SubSeq(s, 6, 7)) /\ Ch(s, 8) = "-"
            /\ AllDigits(SubSeq(s, 9, 10)) /\ Ch(s, 11) = " "
            /\ AllDigits(SubSeq(s, 12, 13)) /\ Ch(s, 14) = ":"
            /\ AllDigits(SubSeq(s, 15, 16))
         THEN LET y == StrToInt(SubSeq(s, 1, 4))
                  m == StrToInt(SubSeq(s, 6, 7))
                  d == StrToInt(SubSeq(s, 9, 10))
                  hh == StrToInt(SubSeq(s, 12, 13))
                  mi == StrToInt(SubSeq(s, 15, 16))
              IN IF ValidDate(y, m, d) /\ hh <= 23 /\ mi <= 59
                 THEN Ts(Stamp(y, m, d, hh, mi))
                 ELSE NaN
         ELSE NaN

(***************************************************************************)
(* The inputs: uploaded tables and incident descriptions                   *)
(***************************************************************************)
Fields ==
    {"number", "short_description", "description", "category", "subcategory", "priority",
     "status", "created_at", "resolved_at", "updated_at", "resolution_time_hours"}

Ticket(number, short, desc, category, subcategory, priority, status, created, resolved, updated, hours) ==
    [f \in Fields |->
        CASE f = "number" -> number
          [] f = "short_description" -> short
          [] f = "description" -> desc
          [] f = "category" -> category
          [] f = "subcategory" -> subcategory
          [] f = "priority" -> priority
          [] f = "status" -> status
          [] f = "created_at" -> created
          [] f = "resolved_at" -> resolved
          [] f = "updated_at" -> updated
          [] f = "resolution_time_hours" -> hours]

\* The tickets a table is drawn from, as the file holds them.
Pool ==
    << Ticket(Str("INC1"), Str("Login timeout"), Str("Server timeout after recent release"),
              Str("Network"), Str("VPN"), Str("1 - Critical"), Str("New"),
              Str("2024-02-28 09:00"), Str("2024-02-28 13:00"), Str("2024-03-02 08:00"),
              Num(9)),
       Ticket(Str("INC2"), Str("Access denied"),
              Str("Permission error on database server deployed on friday"),
              Str("Change Request"), Str("Database"), Str("High"), Str("In Progress"),
              Str("2024-03-05 10:00"), NaN, Str("n/a"), Num(5)),
       Ticket(Str("INC3"), Str("Slow app"),
              Str("server database network application interface API service cluster login timeout error"),
              Str("Network"), Str("VPN"), Num(3), Str("closed"),
              Str("n/a"), Str("2024-03-02 08:00"), Str("2024-03-02 08:00"), NaN),
       Ticket(Str("INC4"), Str("Password reset"), Str("User cannot reset password"),
              Str("Access"), NaN, Str("Urgent"), Str("on hold"),
              Str("2024-03-04 00:00"), Str("2024-03-04 06:30"), Str("2024-03-04 01:00"),
              NaN),
       Ticket(Str("INC5"), Str("Report crash"), NaN,
              NaN, Str("Reporting"), NaN, Str("Resolved"),
              Str("2024-02-27 00:00"), Str("2024-02-30 10:00"), Str("2024-02-26 23:00"),
              Num(0)) >>

\* The column layouts of the uploaded file: <<column name, field>> in file order.
Schemas ==
    << << <<"number", "number">>, <<"short_description", "short_description">>,
          <<"description", "description">>, <<"category", "category">>,
          <<"subcategory", "subcategory">>, <<"priority", "priority">>,
          <<"status", "status">>, <<"created_at", "created_at">>,
          <<"resolved_at", "resolved_at">>, <<"updated_at", "updated_at">> >>,
       << <<"Ticket Number", "number">>, <<"Summary", "short_description">>,
          <<"Details", "description">>, <<"Type", "category">>, <<"Urgency", "priority">>,
          <<"State", "status">>, <<"Opened At", "created_at">>,
          <<"Closed At", "resolved_at">> >>,
       << <<"number", "number">>, <<"description", "description">>,
          <<"priority", "priority">> >>,
       << <<"number", "number">>, <<"short_description", "short_description">>,
          <<"created_at", "created_at">>, <<"resolved_at", "resolved_at">>,
          <<"resolution_time_hours", "resolution_time_hours">> >>,
       << <<"ID", "number">>, <<"Title", "short_description">>, <<"Summary", "category">>,
          <<"description", "description">>, <<"Details", "subcategory">>,
          <<"Open Time", "created_at">>, <<"Opened At", "updated_at">> >> >>

MaxTickets == 3

\* pd.read_csv: the table of a file with the given layout and rows, labelled
\* 0, 1, ...  A column that holds a string, or no value at all, is read with
\* dtype object; a column of numbers and blanks is numeric.
RawTable(schema, picks) ==
    LET cols == [i \in 1..Len(schema) |-> schema[i][1]]
        cell(r, i) == Pool[picks[r]][schema[i][2]]
    IN [cols |-> cols,
        index |-> [r \in 1..Len(picks) |-> r - 1],
        rows |-> [r \in 1..Len(picks) |->
                    [c \in Range(cols) |-> cell(r, FirstIndex(c, cols))]],
        object |-> {cols[i] : i \in {j \in 1..Len(cols) :
                        picks = <<>> \/ \E r \in 1..Len(picks) : cell(r, j).k = "str"}}]

RawTables ==
    {RawTable(Schemas[s], picks) :
        s \in 1..Len(Schemas),
        picks \in UNION {[1..n -> 1..Len(Pool)] : n \in 0..MaxTickets}}

\* The names of the uploaded file.
FileNames == {"tickets.csv", "tickets.XLSX", "tickets.xls", "tickets.json", "tickets"}

IncidentTexts ==
    {"Outage on 3/1/2024 affecting login",
     "Outage on 25/12/2024 affecting login",
     "The server is slow and the Server timed out",
     "is it on",
     "network network vlan switch router firewall proxy gateway subnet packet socket password",
     "crash report 2-27-24",
     "crash on 2024-13-45"}

Windows == {1, 3}

\* The dates picked in the page's date input.
PickedDates == {Ts(Stamp(2024, 3, 1, 0, 0)), Ts(Stamp(2024, 3, 5, 0, 0))}

\* Every text the model holds: the strings of the pool, the column names of
\* the layouts, the incident descriptions, and str() of a missing value.
ModelTexts ==
    IncidentTexts
    \cup {Pool[p][f].s : p \in 1..Len(Pool), f \in Fields}
    \cup UNION {{Schemas[i][c][1] : c \in 1..Len(Schemas[i])} : i \in 1..Len(Schemas)}
    \cup {"nan", "None", "N/A", "<time>"}

\* The text functions are tabulated once over the texts of the model; any
\* other text is computed on the spot.
LowerTable == [s \in ModelTexts |-> LowerOf(s)]

Lower(s) == IF s \in ModelTexts THEN LowerTable[s] ELSE LowerOf(s)

StampTable == [s \in ModelTexts |-> ParseStamp(s)]

\* pd.to_datetime(value, errors='coerce'): a timestamp stays, a string is
\* parsed, everything else becomes NaT.
ToDatetime(c) ==
    IF c.k = "ts" THEN c
    ELSE IF c.k # "str" THEN NaN
    ELSE IF c.s \in ModelTexts THEN StampTable[c.s] ELSE ParseStamp(c.s)

\* Series.str.contains(term, case=False): the term holds word characters only,
\* so the regular expression it is compiled to is the literal term.
ContainsNoCase(s, t) == Contains(Lower(s), Lower(t))

(***************************************************************************)
(* Tables (pandas DataFrames): the column names in order, the row labels   *)
(* (the index), the rows, each a function from column name to cell, and    *)
(* the columns of dtype object (those the .str accessor accepts).          *)
(***************************************************************************)
HasCol(t, c) == InSeq(c, t.cols)

NRows(t) == Len(t.rows)

ColSet(t) == Range(t.cols)

\* The object columns once col holds values of the given dtype.
WithDtype(object, col, isObject) == IF isObject THEN object \cup {col} ELSE object \ {col}

\* df[col] = vals: an existing column is overwritten in place, a new one is appended.
AddCol(t, col, vals, isObject) ==
    [cols |-> IF InSeq(col, t.cols) THEN t.cols ELSE Append(t.cols, col),
     index |-> t.index,
     rows |-> [i \in 1..Len(t.rows) |->
                 [c \in Range(t.cols) \cup {col} |-> IF c = col THEN vals[i] ELSE t.rows[i][c]]],
     object |-> WithDtype(t.object, col, isObject)]

\* df.rename(columns={old: new})
RenameCol(t, old, new) ==
    LET newcols == [i \in 1..Len(t.cols) |-> IF t.cols[i] = old THEN new ELSE t.cols[i]]
    IN [cols |-> newcols,
        index |-> t.index,
        rows |-> [i \in 1..Len(t.rows) |->
                    [c \in Range(newcols) |-> t.rows[i][IF c = new THEN old ELSE c]]],
        object |-> {IF c = old THEN new ELSE c : c \in t.object}]

\* An exception that leaves the call, in place of its result.
Raised(exception) == [raised |-> exception]

IsRaised(result) == DOMAIN result = {"raised"}

\* series.str on a column that is not of dtype object raises AttributeError.
StrAccessorRaises(t, col) == HasCol(t, col) /\ col \notin t.object

\* The rows the mask marks, the last one first.
SelectRowsReversed(t, mask) ==
    [cols |-> t.cols,
     index |-> [k \in 1..Len(FilterIdx(t.index, mask, 1)) |->
                  FilterIdx(t.index, mask, 1)[Len(FilterIdx(t.index, mask, 1)) + 1 - k]],
     rows |-> [k \in 1..Len(FilterIdx(t.rows, mask, 1)) |->
                 FilterIdx(t.rows, mask, 1)[Len(FilterIdx(t.rows, mask, 1)) + 1 - k]],
     object |-> t.object]

\* df[mask]: the rows the boolean mask marks, with their labels, in order.
SelectRows(t, mask) ==
    [cols |-> t.cols,
     index |-> FilterIdx(t.index, mask, 1),
     rows |-> FilterIdx(t.rows, mask, 1),
     object |-> t.object]

(***************************************************************************)
(* utils/data_processor.py                                                 *)
(***************************************************************************)
\* uploaded_file.name.split('.')[-1]
RECURSIVE LastSegment(_, _)
LastSegment(name, i) ==
    IF i = 0 THEN name
    ELSE IF Ch(name, i) = "." THEN From(name, i + 1)
    ELSE LastSegment(name, i - 1)

FileType(name) == Lower(LastSegment(name, Len(name)))

\* Every file is read as a table, whatever its type.
LoadAnyFormat(name, table) == table

\* load_data of the file with the given name, table being what pd.read_csv or
\* pd.read_excel reads from it.
load_data(name, table) ==
    IF FileType(name) = "csv" THEN table
    ELSE IF FileType(name) \in {"xlsx", "xls"} THEN table
    ELSE Raised("ValueError")

\* col.lower().replace(' ', '_')
NormName(c) == ReplaceCh(Lower(c), " ", "_")

NormalizeColumns(t) ==
    LET newcols == [i \in 1..Len(t.cols) |-> NormName(t.cols[i])]
    IN [cols |-> newcols,
        index |-> t.index,
        rows |-> [i \in 1..Len(t.rows) |->
                    [c \in Range(newcols) |->
                        t.rows[i][t.cols[FirstIndex(c, newcols)]]]],
        object |-> {NormName(c) : c \in t.object}]

\* The synonym table, in the order the dict is written.
column_mapping ==
    << <<"incident_number", "number">>, <<"ticket_number", "number">>, <<"id", "number">>,
       <<"summary", "short_description">>, <<"title", "short_description">>,
       <<"issue", "short_description">>, <<"details", "description">>,
       <<"state", "status">>, <<"priority_level", "priority">>, <<"urgency", "priority">>,
       <<"issue_category", "category">>, <<"type", "category">>,
       <<"sub_category", "subcategory">>, <<"assignee", "assigned_to">>,
       <<"owner", "assigned_to">>, <<"created_date", "created_at">>,
       <<"opened_at", "created_at">>, <<"open_time", "created_at">>,
       <<"resolved_date", "resolved_at">>, <<"closed_at", "resolved_at">>,
       <<"close_time", "resolved_at">> >>

RECURSIVE ApplyMappingLastFirst(_, _)
\* The synonym table applied from its last entry to its first.
ApplyMappingLastFirst(t, i) ==
    IF i > Len(column_mapping) THEN t
    ELSE LET old == column_mapping[Len(column_mapping) + 1 - i][1]
             new == column_mapping[Len(column_mapping) + 1 - i][2]
         IN IF HasCol(t, old) /\ ~HasCol(t, new)
            THEN ApplyMappingLastFirst(RenameCol(t, old, new), i + 1)
            ELSE ApplyMappingLastFirst(t, i + 1)

RECURSIVE ApplyColumnMapping(_, _)
ApplyColumnMapping(t, i) ==
    IF i > Len(column_mapping) THEN t
    ELSE LET old == column_mapping[i][1]
             new == column_mapping[i][2]
         IN IF HasCol(t, old) /\ ~HasCol(t, new)
            THEN ApplyColumnMapping(RenameCol(t, old, new), i + 1)
            ELSE ApplyColumnMapping(t, i + 1)

pp_date_columns == <<"created_at", "resolved_at", "updated_at", "closed_at">>

RECURSIVE ParseDateColumns(_, _, _)
ParseDateColumns(t, cols, i) ==
    IF i > Len(cols) THEN t
    ELSE IF HasCol(t, cols[i])
         THEN ParseDateColumns(AddCol(t, cols[i], [r \in 1..Len(t.rows) |-> ToDatetime(t.rows[r][cols[i]])], FALSE), cols, i + 1)
         ELSE ParseDateColumns(t, cols, i + 1)

\* (resolved_at - created_at).dt.total_seconds() / 3600, in sixtieths of an hour.
HoursBetween(created, resolved) == Dur(resolved.n - created.n)

\* The resolution time computed on the rows with both dates only, the other
\* rows left out of the result.
ResolutionTimeOfValidRows(t) ==
    IF HasCol(t, "created_at") /\ HasCol(t, "resolved_at")
    THEN SelectRows(AddCol(t, "resolution_time_hours",
                           [i \in 1..NRows(t) |->
                               HoursBetween(t.rows[i]["created_at"], t.rows[i]["resolved_at"])],
                           FALSE),
                    [i \in 1..NRows(t) |->
                        ~IsNa(t.rows[i]["created_at"]) /\ ~IsNa(t.rows[i]["resolved_at"])])
    ELSE t

ResolutionTime(t) ==
    IF HasCol(t, "created_at") /\ HasCol(t, "resolved_at")
    THEN LET valid_dates == [i \in 1..NRows(t) |->
                               ~IsNa(t.rows[i]["created_at"]) /\ ~IsNa(t.rows[i]["resolved_at"])]
         IN IF \E i \in 1..NRows(t) : valid_dates[i]
            THEN AddCol(t, "resolution_time_hours",
                        [i \in 1..NRows(t) |->
                            IF valid_dates[i]
                            THEN HoursBetween(t.rows[i]["created_at"], t.rows[i]["resolved_at"])
                            ELSE IF HasCol(t, "resolution_time_hours")
                                 THEN t.rows[i]["resolution_time_hours"]
                                 ELSE NaN],
                        FALSE)
            ELSE t
    ELSE t

status_mapping ==
    << <<"new", "Open">>, <<"open", "Open">>, <<"in progress", "In Progress">>,
       <<"in-progress", "In Progress">>, <<"pending", "In Progress">>,
       <<"on hold", "In Progress">>, <<"awaiting user info", "In Progress">>,
       <<"resolved", "Resolved">>, <<"closed", "Closed">>, <<"cancelled", "Closed">>,
       <<"canceled", "Closed">> >>

Lookup(table, key, default) ==
    IF \E i \in 1..Len(table) : table[i][1] = key
    THEN table[CHOOSE i \in 1..Len(table) : table[i][1] = key][2]
    ELSE default

StandardizeStatusCell(c) ==
    LET x == Lower(CellStr(c)) IN Str(Lookup(status_mapping, x, Capitalize(x)))

StandardizeStatus(t) ==
    IF HasCol(t, "status")
    THEN AddCol(t, "status", [r \in 1..Len(t.rows) |-> StandardizeStatusCell(t.rows[r]["status"])], TRUE)
    ELSE t

priority_mapping ==
    << <<"1-critical", 1>>, <<"1", 1>>, <<"critical", 1>>,
       <<"2-high", 2>>, <<"2", 2>>, <<"high", 2>>,
       <<"3-moderate", 3>>, <<"3", 3>>, <<"moderate", 3>>,
       <<"4-low", 4>>, <<"4", 4>>, <<"low", 4>> >>

RECURSIVE RemoveCh(_, _)
RemoveCh(s, c) ==
    IF s = "" THEN ""
    ELSE (IF Ch(s, 1) = c THEN "" ELSE Ch(s, 1)) \o RemoveCh(From(s, 2), c)

\* astype(str).str.replace(' ', '').str.strip().str.lower(), the mapping, then
\* pd.to_numeric(errors='coerce'): a mapped label or a string of digits is a
\* number, anything else is missing.
StandardizePriorityCell(c) ==
    LET x == Lower(RemoveCh(CellStr(c), " "))
        mapped == Lookup(priority_mapping, x, -1)
    IN IF mapped # -1 THEN Num(mapped)
       ELSE IF AllDigits(x) THEN Num(StrToInt(x))
       ELSE NaN

standardize_priority(t, column_name) ==
    AddCol(t, column_name,
           [r \in 1..Len(t.rows) |-> StandardizePriorityCell(t.rows[r][column_name])], FALSE)

StandardizePriority(t) == IF HasCol(t, "priority") THEN standardize_priority(t, "priority") ELSE t

preprocess_data(df) ==
    StandardizePriority(
      StandardizeStatus(
        ResolutionTime(
          ParseDateColumns(ApplyColumnMapping(NormalizeColumns(df), 1), pp_date_columns, 1))))

(***************************************************************************)
(* utils/rca_analyzer.py: RCAAnalyzer                                      *)
(***************************************************************************)
rca_date_columns == <<"created_at", "resolved_at", "closed_at", "updated_at">>

DayNames == <<"Monday", "Tuesday", "Wednesday", "Thursday", "Friday", "Saturday", "Sunday">>

\* .dt.hour, .dt.day_name(), .dt.date of a timestamp; missing for NaT.
HourOf(c) == IF IsNa(c) THEN NaN ELSE Num((c.n % MinutesPerDay) \div 60)

DayNameOf(c) == IF IsNa(c) THEN NaN ELSE Str(DayNames[((c.n \div MinutesPerDay) % 7) + 1])

DateOf(c) == IF IsNa(c) THEN NaN ELSE Ts(c.n - (c.n % MinutesPerDay))

\* RCAAnalyzer._preprocess_data, on the table the analyzer was handed.
AnalyzerPreprocess(t) ==
    LET parsed == ParseDateColumns(t, rca_date_columns, 1)
    IN IF HasCol(parsed, "created_at")
       THEN LET created == [i \in 1..NRows(parsed) |-> parsed.rows[i]["created_at"]]
            IN AddCol(AddCol(AddCol(parsed,
                   "created_hour", [i \in 1..NRows(parsed) |-> HourOf(created[i])], FALSE),
                   "created_day", [i \in 1..NRows(parsed) |-> DayNameOf(created[i])], TRUE),
                   "created_date", [i \in 1..NRows(parsed) |-> DateOf(created[i])], TRUE)
       ELSE parsed

IsDateSep(c) == c = "/" \/ c = "-"

\* The ways (\d{1,2})[/-](\d{1,2})[/-](\d{2,4}) can split a match, in the order
\* the greedy quantifiers try them.
DateSplits ==
    << <<2, 2, 4>>, <<2, 2, 3>>, <<2, 2, 2>>, <<2, 1, 4>>, <<2, 1, 3>>, <<2, 1, 2>>,
       <<1, 2, 4>>, <<1, 2, 3>>, <<1, 2, 2>>, <<1, 1, 4>>, <<1, 1, 3>>, <<1, 1, 2>> >>

DateFits(s, i, c) ==
    /\ i + c[1] + c[2] + c[3] + 1 <= Len(s)
    /\ AllDigits(SubSeq(s, i, i + c[1] - 1))
    /\ IsDateSep(Ch(s, i + c[1]))
    /\ AllDigits(SubSeq(s, i + c[1] + 1, i + c[1] + c[2]))
    /\ IsDateSep(Ch(s, i + c[1] + c[2] + 1))
    /\ AllDigits(SubSeq(s, i + c[1] + c[2] + 2, i + c[1] + c[2] + c[3] + 1))

DateMatchesAt(s, i) == \E k \in 1..Len(DateSplits) : DateFits(s, i, DateSplits[k])

\* The start of the leftmost match.
FirstDateAt(s) ==
    CHOOSE a \in 1..Len(s) : DateMatchesAt(s, a) /\ \A b \in 1..(a - 1) : ~DateMatchesAt(s, b)

\* The split the greedy quantifiers settle on for the match that starts at i.
FirstSplitAt(s, i) ==
    DateSplits[CHOOSE a \in 1..Len(DateSplits) :
                  DateFits(s, i, DateSplits[a]) /\ \A b \in 1..(a - 1) : ~DateFits(s, i, DateSplits[b])]

DateGroups(s, i, c) ==
    << SubSeq(s, i, i + c[1] - 1),
       SubSeq(s, i + c[1] + 1, i + c[1] + c[2]),
       SubSeq(s, i + c[1] + c[2] + 2, i + c[1] + c[2] + c[3] + 1) >>

DateGroupsAt(s, i) == DateGroups(s, i, FirstSplitAt(s, i))

\* re.search: the groups of the leftmost match, <<>> when there is none.
SearchDate(s) ==
    IF \E i \in 1..Len(s) : DateMatchesAt(s, i) THEN DateGroupsAt(s, FirstDateAt(s)) ELSE <<>>

DateSearchTable == [s \in IncidentTexts |-> SearchDate(s)]

DateSearch(s) == IF s \in IncidentTexts THEN DateSearchTable[s] ELSE SearchDate(s)

\* pd.to_datetime("{year}-{month}-{day}"): raises (caught: no date) unless the
\* three name a calendar date.
ToCalendarDate(year, month, day) ==
    IF ValidDate(year, month, day) THEN Ts(Stamp(year, month, day, 0, 0)) ELSE NaN

\* The groups are read month, day, year; a 2-digit year gets "20" in front.
DateOfGroups(date_match) ==
    IF date_match = <<>> THEN NaN
    ELSE ToCalendarDate(StrToInt(IF Len(date_match[3]) = 2
                                 THEN "20" \o date_match[3] ELSE date_match[3]),
                        StrToInt(date_match[1]), StrToInt(date_match[2]))

\* The incident date of the description, NaT when it has none.
IncidentDate(incident_description) == DateOfGroups(DateSearch(incident_description))

common_words == {"the", "and", "is", "in", "to", "a", "for", "of", "on", "with"}

MinTermLen == 4
MaxKeyTerms == 10

\* re.sub(r'[^\w\s]', ' ', text)
RECURSIVE StripPunctuation(_)
StripPunctuation(s) ==
    IF s = "" THEN ""
    ELSE (IF IsWordChar(Ch(s, 1)) \/ IsSpace(Ch(s, 1)) THEN Ch(s, 1) ELSE " ")
         \o StripPunctuation(From(s, 2))

\* str.split(): the maximal runs of non-space characters.
RECURSIVE SplitWords(_, _)
SplitWords(s, cur) ==
    IF s = "" THEN (IF cur = "" THEN <<>> ELSE <<cur>>)
    ELSE IF IsSpace(Ch(s, 1))
         THEN (IF cur = "" THEN <<>> ELSE <<cur>>) \o SplitWords(From(s, 2), "")
         ELSE SplitWords(From(s, 2), cur \o Ch(s, 1))

RECURSIVE SelectTerms(_)
SelectTerms(words) ==
    IF words = <<>> THEN <<>>
    ELSE (IF Head(words) \notin common_words /\ Len(Head(words)) >= MinTermLen
          THEN <<Head(words)>> ELSE <<>>) \o SelectTerms(Tail(words))

CountOf(x, q) == Cardinality({i \in 1..Len(q) : q[i] = x})

\* Counter(q) as its items: <<element, count>> in first-seen order.
RECURSIVE CounterItems(_, _)
CounterItems(q, i) ==
    IF i > Len(q) THEN <<>>
    ELSE (IF \E j \in 1..(i - 1) : q[j] = q[i] THEN <<>> ELSE << <<q[i], CountOf(q[i], q)>> >>)
         \o CounterItems(q, i + 1)

\* sorted(items, key=count, reverse=True): descending, equal counts in input order.
SortedByCountDesc(items) ==
    LET n == Len(items)
        pos(i) == 1 + Cardinality({j \in 1..n :
                         items[j][2] > items[i][2] \/ (items[j][2] = items[i][2] /\ j < i)})
    IN [p \in 1..n |-> items[CHOOSE i \in 1..n : pos(i) = p]]

KeyTerms(text) ==
    LET words == SplitWords(StripPunctuation(Lower(text)), "")
        key_terms == SelectTerms(words)
        most_common == FirstN(SortedByCountDesc(CounterItems(key_terms, 1)), MaxKeyTerms)
    IN [i \in 1..Len(most_common) |-> most_common[i][1]]

KeyTermsTable == [s \in IncidentTexts |-> KeyTerms(s)]

_extract_key_terms(text) ==
    IF text \in IncidentTexts THEN KeyTermsTable[text] ELSE KeyTerms(text)

\* Series.str.contains(term, case=False, na=False) on one cell.
CellContains(c, term) == c.k = "str" /\ ContainsNoCase(c.s, term)

\* The mask of the tickets that hold every key term in one of the two fields.
KeywordMaskAllTerms(t, key_terms) ==
    [i \in 1..NRows(t) |->
        \/ /\ HasCol(t, "short_description")
           /\ \A k \in 1..Len(key_terms) : CellContains(t.rows[i]["short_description"], key_terms[k])
        \/ /\ HasCol(t, "description")
           /\ \A k \in 1..Len(key_terms) : CellContains(t.rows[i]["description"], key_terms[k])]

KeywordMask(t, key_terms) ==
    [i \in 1..NRows(t) |->
        \/ /\ HasCol(t, "short_description")
           /\ \E k \in 1..Len(key_terms) : CellContains(t.rows[i]["short_description"], key_terms[k])
        \/ /\ HasCol(t, "description")
           /\ \E k \in 1..Len(key_terms) : CellContains(t.rows[i]["description"], key_terms[k])]

\* timedelta(days=time_window) on the minute scale.
Days(time_window) == time_window * MinutesPerDay

\* The window with its upper end left out.
TimeMaskHalfOpen(t, incident_date, time_window) ==
    [i \in 1..NRows(t) |->
        /\ t.rows[i]["created_at"].k = "ts"
        /\ t.rows[i]["created_at"].n >= incident_date.n - Days(time_window)
        /\ t.rows[i]["created_at"].n < incident_date.n + Days(time_window)]

\* The mask of the tickets not outside the window: ~((created < start) |
\* (created > end)), which a missing created_at satisfies.
TimeMaskNotOutside(t, incident_date, time_window) ==
    [i \in 1..NRows(t) |->
        \/ t.rows[i]["created_at"].k # "ts"
        \/ /\ t.rows[i]["created_at"].n >= incident_date.n - Days(time_window)
           /\ t.rows[i]["created_at"].n <= incident_date.n + Days(time_window)]

TimeMask(t, incident_date, time_window) ==
    LET start_date == incident_date.n - Days(time_window)
        end_date == incident_date.n + Days(time_window)
    IN [i \in 1..NRows(t) |->
          LET created == t.rows[i]["created_at"]
          IN created.k = "ts" /\ created.n >= start_date /\ created.n <= end_date]

DefaultTimeWindow == 3

\* The .str accessor is reached once there is a term to look for.
KeywordRaises(t, key_terms) ==
    /\ key_terms # <<>>
    /\ StrAccessorRaises(t, "short_description") \/ StrAccessorRaises(t, "description")

\* The two modes, once the date and the key terms of the description are known.
\* The locator giving no ticket in time-window mode when there is no created_at.
RelatedByCreatedOnly(ticket_data, incident_date, key_terms, time_window) ==
    IF IsNa(incident_date)
    THEN IF KeywordRaises(ticket_data, key_terms) THEN Raised("AttributeError")
         ELSE SelectRows(ticket_data, KeywordMask(ticket_data, key_terms))
    ELSE IF HasCol(ticket_data, "created_at")
         THEN SelectRows(ticket_data, TimeMask(ticket_data, incident_date, time_window))
         ELSE SelectRows(ticket_data, [i \in 1..NRows(ticket_data) |-> FALSE])

RelatedBy(ticket_data, incident_date, key_terms, time_window) ==
    IF IsNa(incident_date)
    THEN IF KeywordRaises(ticket_data, key_terms)
         THEN Raised("AttributeError")
         ELSE SelectRows(ticket_data, KeywordMask(ticket_data, key_terms))
    ELSE IF HasCol(ticket_data, "created_at")
         THEN SelectRows(ticket_data, TimeMask(ticket_data, incident_date, time_window))
         ELSE ticket_data

identify_related_tickets(ticket_data, incident_description, time_window) ==
    RelatedBy(ticket_data, IncidentDate(incident_description),
              _extract_key_terms(incident_description), time_window)

(***************************************************************************)
(* Timeline                                                                *)
(***************************************************************************)
\* ticket.get(col, default)
Get(t, i, col, default) == IF HasCol(t, col) THEN t.rows[i][col] ELSE default

Event(timestamp, event_type, ticket_id, description) ==
    [timestamp |-> timestamp, event_type |-> event_type,
     ticket_id |-> ticket_id, description |-> description]

\* Created events of the tickets whose created_at is not missing only.
CreatedEventsNotNa(t) ==
    IF HasCol(t, "created_at")
    THEN FilterIdx([i \in 1..NRows(t) |->
                      Event(t.rows[i]["created_at"], "Ticket Created",
                            Get(t, i, "number", Str("")),
                            Get(t, i, "short_description", Str("N/A")))],
                   [i \in 1..NRows(t) |-> ~IsNa(t.rows[i]["created_at"])], 1)
    ELSE <<>>

CreatedEvents(t) ==
    IF HasCol(t, "created_at")
    THEN [i \in 1..NRows(t) |->
            Event(t.rows[i]["created_at"], "Ticket Created",
                  Get(t, i, "number", Str("")), Get(t, i, "short_description", Str("N/A")))]
    ELSE <<>>

ResolvedEvents(t) ==
    IF HasCol(t, "resolved_at")
    THEN FilterIdx([i \in 1..NRows(t) |->
                      Event(t.rows[i]["resolved_at"], "Ticket Resolved",
                            Get(t, i, "number", Str("")),
                            Str("Resolution: " \o CellStr(Get(t, i, "resolution", Str("N/A")))))],
                   [i \in 1..NRows(t) |-> ~IsNa(t.rows[i]["resolved_at"])], 1)
    ELSE <<>>

UpdatedEvents(t) ==
    IF HasCol(t, "updated_at")
    THEN FilterIdx([i \in 1..NRows(t) |->
                      Event(t.rows[i]["updated_at"], "Ticket Updated",
                            Get(t, i, "number", Str("")),
                            Str("Status: " \o CellStr(Get(t, i, "status", Str("N/A")))))],
                   [i \in 1..NRows(t) |-> ~IsNa(t.rows[i]["updated_at"])], 1)
    ELSE <<>>

\* a < b on timestamps: every comparison with NaT is False.
StampLT(a, b) == a.k = "ts" /\ b.k = "ts" /\ a.n < b.n

EventLT(a, b) == StampLT(a.timestamp, b.timestamp)

\* list.sort(key=timestamp) as CPython runs it on a list shorter than 64
\* elements: the leading run is found (and reversed if strictly descending),
\* then the remaining elements are inserted by binary insertion.
RECURSIVE RunEnd(_, _, _)
RunEnd(q, i, descending) ==
    IF i > Len(q) THEN Len(q)
    ELSE IF EventLT(q[i], q[i - 1]) = descending THEN RunEnd(q, i + 1, descending)
         ELSE i - 1

Reverse(q) == [i \in 1..Len(q) |-> q[Len(q) + 1 - i]]

RECURSIVE BinarySearch(_, _, _, _)
\* l and r count from 0, as in the C source.
BinarySearch(q, pivot, l, r) ==
    IF l >= r THEN l
    ELSE LET p == l + ((r - l) \div 2)
         IN IF EventLT(pivot, q[p + 1]) THEN BinarySearch(q, pivot, l, p)
            ELSE BinarySearch(q, pivot, p + 1, r)

RECURSIVE BinarySort(_, _)
BinarySort(q, start) ==
    IF start > Len(q) THEN q
    ELSE LET pivot == q[start]
             l == BinarySearch(q, pivot, 0, start - 1)
         IN BinarySort(SubSeq(q, 1, l) \o <<pivot>> \o SubSeq(q, l + 1, start - 1)
                          \o SubSeq(q, start + 1, Len(q)),
                       start + 1)

ListSort(q) ==
    IF Len(q) < 2 THEN q
    ELSE LET descending == EventLT(q[2], q[1])
             n == RunEnd(q, 3, descending)
             run == IF descending THEN Reverse(SubSeq(q, 1, n)) \o SubSeq(q, n + 1, Len(q)) ELSE q
         IN BinarySort(run, n + 1)

analyze_incident_timeline(related_tickets) ==
    ListSort(CreatedEvents(related_tickets) \o ResolvedEvents(related_tickets)
                \o UpdatedEvents(related_tickets))

(***************************************************************************)
(* Contributing factors                                                    *)
(***************************************************************************)
\* Series.value_counts() as items <<value, count>>: missing values dropped,
\* descending by count, equal counts in first-seen order.
ColumnValues(t, col) ==
    FilterIdx([i \in 1..NRows(t) |-> t.rows[i][col]],
              [i \in 1..NRows(t) |-> ~IsNa(t.rows[i][col])], 1)

ValueCounts(t, col) == SortedByCountDesc(CounterItems(ColumnValues(t, col), 1))

Sum(f, n) == LET S[i \in 0..n] == IF i = 0 THEN 0 ELSE S[i - 1] + f[i] IN S[n]

\* count > mean, the standard deviation left out.
ExceedsMean(count, counts) == Len(counts) * count > Sum(counts, Len(counts))

\* count > mean + std over the counts (std with ddof = 1; with fewer than two
\* counts std is NaN and nothing exceeds it), in exact integer arithmetic.
ExceedsMeanPlusStd(count, counts) ==
    LET k == Len(counts)
        total == Sum(counts, k)
        sq == Sum([i \in 1..k |-> (k * counts[i] - total) * (k * counts[i] - total)], k)
    IN /\ k >= 2
       /\ k * count > total
       /\ (k * count - total) * (k * count - total) * (k - 1) > sq

_analyze_time_patterns(tickets) ==
    LET hour_counts == IF HasCol(tickets, "created_hour")
                       THEN ValueCounts(tickets, "created_hour") ELSE <<>>
        counts == [i \in 1..Len(hour_counts) |-> hour_counts[i][2]]
        peak_hours == FilterIdx(hour_counts,
                        [i \in 1..Len(hour_counts) |-> ExceedsMeanPlusStd(counts[i], counts)], 1)
        keys == (IF peak_hours # <<>> THEN {"peak_hours"} ELSE {})
                \cup (IF HasCol(tickets, "created_day") THEN {"day_distribution"} ELSE {})
    IN [key \in keys |->
          IF key = "peak_hours" THEN peak_hours ELSE ValueCounts(tickets, "created_day")]

\* An insertion-ordered dict as a sequence of <<key, value>>.
DictHas(d, key) == \E i \in 1..Len(d) : d[i][1] = key

DictGet(d, key, default) == Lookup(d, key, default)

DictSet(d, key, value) ==
    IF DictHas(d, key)
    THEN [i \in 1..Len(d) |-> IF d[i][1] = key THEN <<key, value>> ELSE d[i]]
    ELSE Append(d, <<key, value>>)

\* defaultdict(int)[key] += 1
DictIncr(d, key) == DictSet(d, key, DictGet(d, key, 0) + 1)

RECURSIVE IncrAll(_, _)
IncrAll(d, keys) == IF keys = <<>> THEN d ELSE IncrAll(DictIncr(d, Head(keys)), Tail(keys))

RECURSIVE SetCounts(_, _, _)
SetCounts(d, prefix, items) ==
    IF items = <<>> THEN d
    ELSE SetCounts(DictSet(d, prefix \o CellStr(Head(items)[1]), Head(items)[2]), prefix, Tail(items))

\* The alternatives of each component pattern, lower-cased (re.IGNORECASE).
component_patterns ==
    << <<"server", "database", "network", "application", "interface", "api", "service", "cluster">>,
       <<"authentication", "authorization", "login", "access">>,
       <<"timeout", "latency", "slow", "performance">>,
       <<"error", "exception", "failure", "crash">> >>

AltAt(alts, s, i) ==
    IF \E k \in 1..Len(alts) : StartsAt(s, i, alts[k])
    THEN CHOOSE k \in 1..Len(alts) :
            StartsAt(s, i, alts[k]) /\ \A j \in 1..(k - 1) : ~StartsAt(s, i, alts[j])
    ELSE 0

\* re.findall on an alternation of literals: left to right, non-overlapping.
RECURSIVE FindAll(_, _, _)
FindAll(alts, s, i) ==
    IF i > Len(s) THEN <<>>
    ELSE LET k == AltAt(alts, s, i)
         IN IF k > 0 THEN <<alts[k]>> \o FindAll(alts, s, i + Len(alts[k]))
            ELSE FindAll(alts, s, i + 1)

RECURSIVE ComponentMatches(_, _)
\* The labels one description adds, in the order they are counted.
ComponentMatches(desc, p) ==
    IF p > Len(component_patterns) THEN <<>>
    ELSE LET found == FindAll(component_patterns[p], Lower(desc), 1)
         IN [i \in 1..Len(found) |-> Capitalize(found[i])] \o ComponentMatches(desc, p + 1)

ComponentTable == [s \in ModelTexts |-> ComponentMatches(s, 1)]

ComponentsOf(desc) ==
    IF desc \in ModelTexts THEN ComponentTable[desc] ELSE ComponentMatches(desc, 1)

RECURSIVE DescriptionComponents(_, _, _)
DescriptionComponents(d, tickets, i) ==
    IF i > NRows(tickets) THEN d
    ELSE DescriptionComponents(
            IncrAll(d, ComponentsOf(CellStr(tickets.rows[i]["description"]))),
            tickets, i + 1)

MaxComponents == 10

AllComponents(tickets) ==
    LET c1 == IF HasCol(tickets, "category")
              THEN SetCounts(<<>>, "Category: ", ValueCounts(tickets, "category")) ELSE <<>>
        c2 == IF HasCol(tickets, "subcategory")
              THEN SetCounts(c1, "Subcategory: ", ValueCounts(tickets, "subcategory")) ELSE c1
    IN IF HasCol(tickets, "description") THEN DescriptionComponents(c2, tickets, 1) ELSE c2

\* The first labels collected, whatever their counts.
FirstComponentsSeen(tickets) == FirstN(AllComponents(tickets), MaxComponents)

_extract_system_components(tickets) ==
    FirstN(SortedByCountDesc(AllComponents(tickets)), MaxComponents)

\* The error categories in dict order, each with the strings its pattern
\* matches (every pattern is a finite alternation), lower-cased.
error_patterns ==
    << <<"timeouts", <<"timeout", "timed out", "time out">> >>,
       <<"access_issues", <<"access denied", "unauthorized", "forbidden", "permission">> >>,
       <<"performance", <<"slow", "performance", "latency", "delay">> >>,
       <<"data_issues", <<"data error", "data issue", "data problem", "data corrupt",
                          "inconsistent data">> >>,
       <<"crashes", <<"crash", "abort", "terminate", "stop responding">> >>,
       <<"connectivity", <<"connection issue", "connection problem", "connection error",
                           "connectivity issue", "connectivity problem", "connectivity error",
                           "unable to connect">> >>,
       <<"authentication", <<"login failed", "login issue", "login problem", "login error",
                             "authentication failed", "authentication issue",
                             "authentication problem", "authentication error",
                             "auth failed", "auth issue", "auth problem", "auth error">> >> >>

\* re.search(pattern, text, re.IGNORECASE) for a pattern given by its strings.
Matches(literals, text) ==
    LET low == Lower(text) IN \E k \in 1..Len(literals) : Contains(low, literals[k])

\* The categories one text matches, in dict order.
ErrorsIn(text) ==
    LET names == [e \in 1..Len(error_patterns) |-> error_patterns[e][1]]
    IN FilterIdx(names, [e \in 1..Len(error_patterns) |-> Matches(error_patterns[e][2], text)], 1)

ErrorTable == [s \in ModelTexts |-> ErrorsIn(s)]

MatchedErrors(text) == IF text \in ModelTexts THEN ErrorTable[text] ELSE ErrorsIn(text)

RECURSIVE FieldErrors(_, _, _, _)
FieldErrors(d, tickets, field, i) ==
    IF i > NRows(tickets) THEN d
    ELSE FieldErrors(IncrAll(d, MatchedErrors(CellStr(tickets.rows[i][field]))), tickets, field, i + 1)

text_fields == <<"short_description", "description">>

RECURSIVE ErrorsOverFields(_, _, _)
ErrorsOverFields(d, tickets, f) ==
    IF f > Len(text_fields) THEN d
    ELSE IF HasCol(tickets, text_fields[f])
         THEN ErrorsOverFields(FieldErrors(d, tickets, text_fields[f], 1), tickets, f + 1)
         ELSE ErrorsOverFields(d, tickets, f + 1)

_extract_common_errors(tickets) == ErrorsOverFields(<<>>, tickets, 1)

\* The strings each change pattern matches, in the order of its alternatives.
change_patterns ==
    << <<"after upgrade", "after update", "after patch", "after deployment", "after release",
         "after change", "following upgrade", "following update", "following patch",
         "following deployment", "following release", "following change",
         "recent upgrade", "recent update", "recent patch", "recent deployment",
         "recent release", "recent change">>,
       <<"implemented on", "implemented at", "installed on", "installed at",
         "deployed on", "deployed at", "changed on", "changed at">>,
       <<"new version", "release", "build", "deployment">> >>

\* match.group(0) of re.search: the leftmost match, in the text's own case;
\* "" when the pattern does not match.
FirstMatch(literals, text) ==
    LET low == Lower(text)
    IN IF \E i \in 1..Len(low) : AltAt(literals, low, i) > 0
       THEN LET i == CHOOSE a \in 1..Len(low) :
                        AltAt(literals, low, a) > 0 /\ \A b \in 1..(a - 1) : AltAt(literals, low, b) = 0
            IN SubSeq(text, i, i + Len(literals[AltAt(literals, low, i)]) - 1)
       ELSE ""

EvidenceTable ==
    [p \in 1..Len(change_patterns) |-> [s \in ModelTexts |-> FirstMatch(change_patterns[p], s)]]

Evidence(p, text) ==
    IF text \in ModelTexts THEN EvidenceTable[p][text] ELSE FirstMatch(change_patterns[p], text)

Change(t, i, evidence) ==
    [ticket_id |-> Get(t, i, "number", Str("")),
     description |-> Get(t, i, "short_description", Str("N/A")),
     date |-> Get(t, i, "created_at", None),
     evidence |-> evidence]

CategoryChanges(t) ==
    IF HasCol(t, "category")
    THEN FilterIdx([i \in 1..NRows(t) |-> Change(t, i, "")],
                   [i \in 1..NRows(t) |-> CellContains(t.rows[i]["category"], "change")], 1)
    ELSE <<>>

RECURSIVE PatternChanges(_, _, _)
PatternChanges(t, i, p) ==
    IF p > Len(change_patterns) THEN <<>>
    ELSE LET evidence == Evidence(p, CellStr(t.rows[i]["description"]))
         IN (IF evidence # "" THEN <<Change(t, i, evidence)>> ELSE <<>>)
            \o PatternChanges(t, i, p + 1)

RECURSIVE DescriptionChanges(_, _)
DescriptionChanges(t, i) ==
    IF i > NRows(t) THEN <<>>
    ELSE PatternChanges(t, i, 1) \o DescriptionChanges(t, i + 1)

\* An entry of the category detector has no 'evidence' key: evidence = "".
_identify_related_changes(tickets) ==
    CategoryChanges(tickets)
    \o (IF HasCol(tickets, "description") THEN DescriptionChanges(tickets, 1) ELSE <<>>)

identify_contributing_factors(related_tickets) ==
    IF StrAccessorRaises(related_tickets, "category") THEN Raised("AttributeError")
    ELSE
    [time_patterns |-> _analyze_time_patterns(related_tickets),
     system_components |-> _extract_system_components(related_tickets),
     common_errors |-> _extract_common_errors(related_tickets),
     related_changes |-> _identify_related_changes(related_tickets)]

(***************************************************************************)
(* Impact                                                                  *)
(***************************************************************************)
IsHighPriority(c) ==
    \/ c.k = "num" /\ c.n \in {1, 2}
    \/ c.k = "str" /\ c.s \in {"1", "2", "Critical", "High"}

\* round(x, 2) of x = 100 * num / den, in hundredths; a tie goes to the even
\* neighbour.
RoundPercent(num, den) ==
    LET scaled == 10000 * num
        q == scaled \div den
        r == scaled % den
    IN IF 2 * r < den THEN q
       ELSE IF 2 * r > den THEN q + 1
       ELSE IF q % 2 = 0 THEN q ELSE q + 1

HighPriorityCount(t) == Cardinality({i \in 1..NRows(t) : IsHighPriority(t.rows[i]["priority"])})

\* The percentage cut off after two decimals.
HighPriorityTruncated(t) == (10000 * HighPriorityCount(t)) \div NRows(t)

\* round((high_priority / len(related_tickets)) * 100, 2), in hundredths of a percent.
HighPriorityPercentage(t) == RoundPercent(HighPriorityCount(t), NRows(t))

Max(S) == CHOOSE m \in S : \A o \in S : o <= m

analyze_impact(related_tickets) ==
    LET t == related_tickets
        times == IF HasCol(t, "resolution_time_hours")
                 THEN ColumnValues(t, "resolution_time_hours") ELSE <<>>
        keys == {"ticket_count"}
                \cup (IF HasCol(t, "priority") THEN {"priority_distribution"} ELSE {})
                \* ZeroDivisionError on an empty set is caught: the key is left out.
                \cup (IF HasCol(t, "priority") /\ NRows(t) > 0
                      THEN {"high_priority_percentage"} ELSE {})
                \cup (IF HasCol(t, "affected_user") THEN {"affected_user_count"} ELSE {})
                \cup (IF times # <<>> THEN {"avg_resolution_time", "max_resolution_time"} ELSE {})
    IN [key \in keys |->
          CASE key = "ticket_count" -> NRows(t)
            [] key = "priority_distribution" -> ValueCounts(t, "priority")
            [] key = "high_priority_percentage" -> HighPriorityPercentage(t)
            [] key = "affected_user_count" -> Cardinality(Range(ColumnValues(t, "affected_user")))
            \* the mean as <<sum, count>>, in sixtieths of an hour
            [] key = "avg_resolution_time" ->
                 <<Sum([i \in 1..Len(times) |-> times[i].n], Len(times)), Len(times)>>
            [] key = "max_resolution_time" -> Max({times[i].n : i \in 1..Len(times)})]

(***************************************************************************)
(* Report                                                                  *)
(***************************************************************************)
SampleSize == 5

InsufficientData ==
    [status |-> "insufficient_data",
     message |-> "No related tickets found for this incident. Please provide more details or check the data."]

\* The report compiled without its sample tickets.
ReportWithoutSamples(incident_description, related_tickets) ==
    [incident_description |-> incident_description,
     related_tickets |-> NRows(related_tickets),
     timeline |-> analyze_incident_timeline(related_tickets),
     contributing_factors |-> identify_contributing_factors(related_tickets),
     impact |-> analyze_impact(related_tickets)]

FullReport(incident_description, related_tickets) ==
    [incident_description |-> incident_description,
     related_tickets |-> NRows(related_tickets),
     timeline |-> analyze_incident_timeline(related_tickets),
     contributing_factors |-> identify_contributing_factors(related_tickets),
     impact |-> analyze_impact(related_tickets),
     sample_tickets |-> FirstN(related_tickets.rows, SampleSize)]

Stages ==
    <<"identify_related_tickets", "analyze_incident_timeline", "identify_contributing_factors",
      "analyze_impact">>

\* Report generation without the early exit on an empty related set.
ReportWithoutEarlyExit(incident_description, related_tickets) ==
    IF IsRaised(related_tickets)
    THEN [report |-> related_tickets, stages |-> FirstN(Stages, 1)]
    ELSE [report |-> FullReport(incident_description, related_tickets), stages |-> Stages]

\* The report built from what the locator gave, with the stages that were
\* entered; an exception of a stage leaves generate_rca_report.
ReportOf(incident_description, related_tickets) ==
    IF IsRaised(related_tickets)
    THEN [report |-> related_tickets, stages |-> FirstN(Stages, 1)]
    ELSE IF NRows(related_tickets) = 0
    THEN [report |-> InsufficientData, stages |-> FirstN(Stages, 1)]
    ELSE IF StrAccessorRaises(related_tickets, "category")
    THEN [report |-> Raised("AttributeError"), stages |-> FirstN(Stages, 3)]
    ELSE [report |-> FullReport(incident_description, related_tickets), stages |-> Stages]

\* related_tickets is computed once, with the default window, and every stage
\* reads that one value.
generate_rca_report(ticket_data, incident_description) ==
    CHOOSE r \in {ReportOf(incident_description, related_tickets) :
                    related_tickets \in {identify_related_tickets(ticket_data, incident_description,
                                                                  DefaultTimeWindow)}} : TRUE

(***************************************************************************)
(* format_rca_report_for_display                                           *)
(***************************************************************************)
Pad2(n) == IF n < 10 THEN "0" \o IntToStr(n) ELSE IntToStr(n)

Pad4(n) == IF n < 1000 THEN "0" \o (IF n < 100 THEN "0" \o Pad2(n) ELSE IntToStr(n)) ELSE IntToStr(n)

YearOfDay(days) ==
    CHOOSE y \in ((days \div 366))..((days \div 365) + 1) :
        DaysBeforeYear(y) <= days /\ days < DaysBeforeYear(y + 1)

MonthOfDay(y, dayOfYear) ==
    CHOOSE m \in 1..12 :
        DaysBeforeMonth(y, m) <= dayOfYear /\ dayOfYear < DaysBeforeMonth(y, m) + DaysInMonth(y, m)

\* strftime('%Y-%m-%d')
FormatDate(n) ==
    LET days == n \div MinutesPerDay
        y == YearOfDay(days)
        doy == days - DaysBeforeYear(y)
        m == MonthOfDay(y, doy)
    IN Pad4(y) \o "-" \o Pad2(m) \o "-" \o Pad2(doy - DaysBeforeMonth(y, m) + 1)

\* strftime('%Y-%m-%d %H:%M:%S')
FormatDateTime(n) ==
    FormatDate(n) \o " " \o Pad2((n % MinutesPerDay) \div 60) \o ":" \o Pad2(n % 60) \o ":00"

\* x.strftime(fmt) if hasattr(x, 'strftime') else x, as it is then interpolated.
\* NaT has the attribute, and its strftime raises ValueError: see Raises.
Strftime(c, withTime) ==
    IF c.k = "ts" THEN (IF withTime THEN FormatDateTime(c.n) ELSE FormatDate(c.n))
    ELSE CellStr(c)

\* str.title() on the names the model formats: the first letter of every
\* word upper-cased.
RECURSIVE Title(_, _)
Title(s, atStart) ==
    IF s = "" THEN ""
    ELSE LET c == Ch(s, 1)
         IN (IF ~IsLetter(c) THEN c ELSE IF atStart THEN UpperCh(c) ELSE LowerCh(c))
            \o Title(From(s, 2), ~IsLetter(c))

ErrorDisplay(error_type) == Title(ReplaceCh(error_type, "_", " "), TRUE)

\* repr of a float holding a whole number of hundredths, h >= 0.
FloatRepr(h) ==
    IntToStr(h \div 100) \o "."
    \o (IF h % 10 = 0 THEN IntToStr((h % 100) \div 10) ELSE Pad2(h % 100))

\* f"{x:.2f}" of x = num / den.
Fixed2(num, den) ==
    LET a == IF num < 0 THEN -num ELSE num
        h == RoundPercent(a, den * 100)
    IN (IF num < 0 /\ h > 0 THEN "-" ELSE "") \o IntToStr(h \div 100) \o "." \o Pad2(h % 100)

RECURSIVE Join(_, _)
Join(lines, sep) ==
    IF lines = <<>> THEN ""
    ELSE IF Len(lines) = 1 THEN lines[1]
    ELSE lines[1] \o sep \o Join(Tail(lines), sep)

MaxTimelineShown == 10
MaxChangesShown == 5

ImpactLines(impact) ==
    <<"\n## Impact Analysis", "**Total Tickets:** " \o IntToStr(impact["ticket_count"])>>
    \o (IF "high_priority_percentage" \in DOMAIN impact
        THEN <<"**High Priority Percentage:** "
               \o FloatRepr(impact["high_priority_percentage"]) \o "%">>
        ELSE <<>>)
    \o (IF "avg_resolution_time" \in DOMAIN impact
        THEN <<"**Average Resolution Time:** "
               \o Fixed2(impact["avg_resolution_time"][1], impact["avg_resolution_time"][2] * 60)
               \o " hours">>
        ELSE <<>>)
    \o (IF "max_resolution_time" \in DOMAIN impact
        THEN <<"**Maximum Resolution Time:** "
               \o Fixed2(impact["max_resolution_time"], 60) \o " hours">>
        ELSE <<>>)

TimelineLines(timeline) ==
    <<"\n## Incident Timeline">>
    \o (IF timeline # <<>>
        THEN LET shown == FirstN(timeline, MaxTimelineShown)
             IN [i \in 1..Len(shown) |->
                   "- **" \o Strftime(shown[i].timestamp, TRUE) \o "** - " \o shown[i].event_type
                   \o ": " \o CellStr(shown[i].description)
                   \o " (" \o CellStr(shown[i].ticket_id) \o ")"]
        ELSE <<"No timeline data available">>)

ComponentLines(components) ==
    <<"\n### Affected System Components">>
    \o (IF components # <<>>
        THEN [i \in 1..Len(components) |->
                "- **" \o components[i][1] \o "**: " \o IntToStr(components[i][2]) \o " tickets"]
        ELSE <<"No system component data available">>)

TimePatternLines(time_patterns) ==
    <<"\n### Time Patterns">>
    \o (IF "peak_hours" \in DOMAIN time_patterns
        THEN <<"**Peak Hours:**">>
             \o [i \in 1..Len(time_patterns["peak_hours"]) |->
                   "- Hour " \o CellStr(time_patterns["peak_hours"][i][1]) \o ": "
                   \o IntToStr(time_patterns["peak_hours"][i][2]) \o " tickets"]
        ELSE <<>>)

ErrorLines(errors) ==
    <<"\n### Common Errors">>
    \o (IF errors # <<>>
        THEN FilterIdx([i \in 1..Len(errors) |->
                          "- **" \o ErrorDisplay(errors[i][1]) \o "**: "
                          \o IntToStr(errors[i][2]) \o " tickets"],
                       [i \in 1..Len(errors) |-> errors[i][2] > 0], 1)
        ELSE <<"No common error patterns detected">>)

RECURSIVE ChangeLines(_)
ChangeLines(changes) ==
    IF changes = <<>> THEN <<>>
    ELSE LET change == Head(changes)
         IN <<"- **" \o Strftime(change.date, FALSE) \o "** - " \o CellStr(change.description)
              \o " (" \o CellStr(change.ticket_id) \o ")">>
            \o (IF change.evidence # ""
                THEN <<"  - Evidence: \"" \o change.evidence \o "\"">> ELSE <<>>)
            \o ChangeLines(Tail(changes))

RelatedChangeLines(changes) ==
    <<"\n### Related Changes">>
    \o (IF changes # <<>> THEN ChangeLines(FirstN(changes, MaxChangesShown))
        ELSE <<"No related changes detected">>)

\* max(items, key=count): the first item with the largest count.
TopItem(items) ==
    items[CHOOSE i \in 1..Len(items) :
            /\ \A j \in 1..Len(items) : items[j][2] <= items[i][2]
            /\ \A j \in 1..(i - 1) : items[j][2] < items[i][2]]

Hypotheses(errors, components, changes, time_patterns) ==
    (IF errors # <<>> /\ TopItem(errors)[1] # "" /\ TopItem(errors)[2] > 0
     THEN LET error_name == ErrorDisplay(TopItem(errors)[1])
          IN <<"**" \o error_name \o " Issues**: " \o IntToStr(TopItem(errors)[2])
               \o " tickets reported problems related to " \o Lower(error_name) \o ".">>
     ELSE <<>>)
    \o (IF components # <<>> /\ components[1][1] # "" /\ components[1][2] > 0
        THEN <<"**" \o components[1][1] \o " Issues**: " \o IntToStr(components[1][2])
               \o " tickets were related to this component.">>
        ELSE <<>>)
    \o (IF changes # <<>>
        THEN <<"**Recent Changes**: " \o IntToStr(Len(changes))
               \o " potentially related changes were identified that may have contributed to the incident.">>
        ELSE <<>>)
    \o (IF "peak_hours" \in DOMAIN time_patterns /\ time_patterns["peak_hours"] # <<>>
        THEN LET peak_hour == TopItem(time_patterns["peak_hours"])
             IN <<"**Time-Based Pattern**: A significant number of tickets ("
                  \o IntToStr(peak_hour[2]) \o ") were created during hour "
                  \o CellStr(peak_hour[1])
                  \o ", suggesting potential resource constraints or scheduled job issues.">>
        ELSE <<>>)

RecReviewChanges ==
    "**Review Recent Changes**: Investigate any recent changes or deployments that coincide with the incident timeframe."
RecMonitor ==
    "**Monitor System Components**: Implement enhanced monitoring for the affected system components."
RecResources ==
    "**Resource Allocation**: Evaluate resource allocation during peak hours to prevent similar incidents."
RecTimeout ==
    "**Connection Timeout Investigation**: Review connection timeout settings and network stability."
RecAccess ==
    "**Access Control Review**: Audit authentication and authorization mechanisms."

Recommendations(errors) ==
    <<RecReviewChanges, RecMonitor, RecResources>>
    \o (IF errors # <<>> /\ DictHas(errors, "timeouts") /\ DictGet(errors, "timeouts", 0) > 0
        THEN <<RecTimeout>> ELSE <<>>)
    \o (IF errors # <<>> /\ DictHas(errors, "access_issues")
           /\ DictGet(errors, "access_issues", 0) > 0
        THEN <<RecAccess>> ELSE <<>>)

Bullets(lines) == [i \in 1..Len(lines) |-> "- " \o lines[i]]

\* NaT.strftime raises ValueError: a shown timeline event or a shown change
\* whose date is NaT aborts the formatting.
Raises(report) ==
    \/ \E i \in 1..Len(FirstN(report.timeline, MaxTimelineShown)) :
          IsNa(report.timeline[i].timestamp)
    \/ \E i \in 1..Len(FirstN(report.contributing_factors.related_changes, MaxChangesShown)) :
          IsNa(report.contributing_factors.related_changes[i].date)

\* The result: raised, or the markdown entries with the text they are joined to.
format_rca_report_for_display(report) ==
    IF "status" \in DOMAIN report /\ report["status"] = "insufficient_data"
    THEN LET text == "## RCA Analysis: Insufficient Data\n\n" \o report["message"]
         IN [raised |-> FALSE, markdown |-> <<text>>, hypotheses |-> <<>>,
             recommendations |-> <<>>, text |-> text]
    ELSE IF Raises(report)
    THEN [raised |-> TRUE, markdown |-> <<>>, hypotheses |-> <<>>,
          recommendations |-> <<>>, text |-> ""]
    ELSE LET factors == report.contributing_factors
             errors == factors.common_errors
             hypotheses == Hypotheses(errors, factors.system_components,
                                      factors.related_changes, factors.time_patterns)
             recommendations == Recommendations(errors)
             markdown ==
                <<"# Root Cause Analysis Report", "## Incident Overview",
                  "**Description:** " \o report.incident_description,
                  "**Related Tickets:** " \o IntToStr(report.related_tickets)>>
                \o ImpactLines(report.impact)
                \o TimelineLines(report.timeline)
                \o <<"\n## Contributing Factors">>
                \o ComponentLines(factors.system_components)
                \o TimePatternLines(factors.time_patterns)
                \o ErrorLines(errors)
                \o RelatedChangeLines(factors.related_changes)
                \o <<"\n## Root Cause Hypothesis",
                     "Based on the analysis of related tickets and contributing factors, the most likely root causes are:">>
                \o (IF hypotheses # <<>> THEN Bullets(hypotheses)
                    ELSE <<"- Insufficient data to generate specific hypotheses">>)
                \o <<"\n## Recommendations">>
                \o Bullets(recommendations)
         IN [raised |-> FALSE, markdown |-> markdown, hypotheses |-> hypotheses,
             recommendations |-> recommendations, text |-> Join(markdown, "\n\n")]

EmptyTable == [cols |-> <<>>, index |-> <<>>, rows |-> <<>>, object |-> {}]

NoCall == [op |-> "none", text |-> "", window |-> 0, date |-> NaN]

(***************************************************************************)
(* The state: the uploaded table, the table preprocess_data made of it,    *)
(* the table the analyzer holds (the caller's own object, not a copy), and *)
(* the last call with what it returned.                                    *)
(***************************************************************************)
VARIABLES raw, df, processed, analyzer, pc, call, ret

vars == <<raw, df, processed, analyzer, pc, call, ret>>

\* self.ticket_data
ticket_data == IF analyzer = "raw" THEN raw ELSE df

Init ==
    /\ raw = EmptyTable
    /\ df = EmptyTable
    /\ processed = FALSE
    /\ analyzer = "none"
    /\ pc = "idle"
    /\ call = NoCall
    /\ ret = EmptyTable

\* app.py: raw_data = load_data(uploaded_file); a failure leaves no table.
LoadData(name, table) ==
    /\ pc = "idle" /\ raw = EmptyTable
    /\ pc' = "returned"
    /\ call' = [op |-> "load_data", text |-> name, window |-> 0, date |-> NaN]
    /\ ret' = load_data(name, table)
    /\ raw' = IF IsRaised(ret') THEN raw ELSE ret'
    /\ UNCHANGED <<df, processed, analyzer>>

\* app.py: processed_data = preprocess_data(raw_data)
Preprocess ==
    /\ pc = "idle" /\ raw # EmptyTable /\ ~processed /\ analyzer = "none"
    /\ df' = preprocess_data(raw)
    /\ processed' = TRUE
    /\ pc' = "returned"
    /\ call' = [op |-> "preprocess_data", text |-> "", window |-> 0, date |-> NaN]
    /\ ret' = df'
    /\ UNCHANGED <<raw, analyzer>>

\* RCAAnalyzer(table): the analyzer keeps the caller's table and preprocesses it in place.
NewAnalyzer(source) ==
    /\ pc = "idle" /\ raw # EmptyTable /\ analyzer = "none"
    /\ \/ source = "raw" /\ ~processed
       \/ source = "df" /\ processed
    /\ analyzer' = source
    /\ raw' = IF source = "raw" THEN AnalyzerPreprocess(raw) ELSE raw
    /\ df' = IF source = "df" THEN AnalyzerPreprocess(df) ELSE df
    /\ UNCHANGED <<processed, pc, call, ret>>

IdentifyRelatedTickets(text, window) ==
    /\ pc = "idle" /\ analyzer # "none"
    /\ pc' = "returned"
    /\ call' = [op |-> "identify_related_tickets", text |-> text, window |-> window, date |-> NaN]
    /\ ret' = identify_related_tickets(ticket_data, text, window)
    /\ UNCHANGED <<raw, df, processed, analyzer>>

\* pages/analysis.py: the button handler, with the description, the slider's
\* window and the date input's date as the page holds them.
GenerateRcaReport(text) ==
    /\ pc = "idle" /\ analyzer # "none"
    /\ pc' = "returned"
    /\ ret' = generate_rca_report(ticket_data, text)
    /\ \E time_window \in Windows, incident_date \in PickedDates :
          call' = [op |-> "generate_rca_report", text |-> text, window |-> time_window,
                   date |-> incident_date]
    /\ UNCHANGED <<raw, df, processed, analyzer>>

\* pages/analysis.py: the stored report is formatted for display.
FormatReport ==
    /\ pc = "returned" /\ call.op = "generate_rca_report" /\ ~IsRaised(ret.report)
    /\ call' = [op |-> "format_rca_report_for_display", text |-> call.text, window |-> 0,
                 date |-> NaN]
    /\ ret' = [report |-> ret.report, display |-> format_rca_report_for_display(ret.report)]
    /\ UNCHANGED <<raw, df, processed, analyzer, pc>>

Return ==
    /\ pc = "returned"
    /\ pc' = "idle"
    /\ call' = NoCall
    /\ ret' = EmptyTable
    /\ UNCHANGED <<raw, df, processed, analyzer>>

Next ==
    \/ \E name \in FileNames, table \in RawTables : LoadData(name, table)
    \/ Preprocess
    \/ \E source \in {"raw", "df"} : NewAnalyzer(source)
    \/ \E text \in IncidentTexts, window \in Windows : IdentifyRelatedTickets(text, window)
    \/ \E text \in IncidentTexts : GenerateRcaReport(text)
    \/ FormatReport
    \/ Return

Spec == Init /\ [][Next]_vars

(***************************************************************************)
(* _analyze_time_patterns on its own, over related sets of more tickets    *)
(***************************************************************************)
MaxPatternTickets == 4

\* Related sets with a created_at column, as the analyzer receives them.
PatternTables ==
    {RawTable(Schemas[4], picks) :
        picks \in UNION {[1..n -> 1..Len(Pool)] : n \in 0..MaxPatternTickets}}

PatternInit ==
    /\ raw \in PatternTables
    /\ df = EmptyTable
    /\ processed = FALSE
    /\ analyzer = "none"
    /\ pc = "idle"
    /\ call = NoCall
    /\ ret = EmptyTable

AnalyzeTimePatterns ==
    /\ pc = "idle" /\ analyzer # "none"
    /\ pc' = "returned"
    /\ call' = [op |-> "_analyze_time_patterns", text |-> "", window |-> 0, date |-> NaN]
    /\ ret' = [patterns |-> _analyze_time_patterns(ticket_data)]
    /\ UNCHANGED <<raw, df, processed, analyzer>>

PatternNext ==
    \/ NewAnalyzer("raw")
    \/ AnalyzeTimePatterns
    \/ Return

PatternSpec == PatternInit /\ [][PatternNext]_vars

(***************************************************************************)
(* Properties                                                              *)
(***************************************************************************)
AfterPreprocess == pc = "returned" /\ call.op = "preprocess_data"

AfterIdentify == pc = "returned" /\ call.op = "identify_related_tickets"

AfterGenerate == pc = "returned" /\ call.op = "generate_rca_report"

AfterFormat == pc = "returned" /\ call.op = "format_rca_report_for_display"

IsSentinel(report) == "status" \in DOMAIN report

IsFull(report) == "timeline" \in DOMAIN report

\* The row labelled as row i of the store is in the result.
InResult(result, store, i) == store.index[i] \in Range(result.index)

\* C1: whenever the related set the locator computes is empty,
\* generate_rca_report returns exactly the two keys status (=
\* "insufficient_data") and message, and no stage after the locator is run.
C1_EmptyRelatedGivesSentinel ==
    AfterGenerate =>
        \A related \in {identify_related_tickets(ticket_data, call.text, DefaultTimeWindow)} :
            (~IsRaised(related) /\ NRows(related) = 0) =>
                /\ DOMAIN ret.report = {"status", "message"}
                /\ ret.report["status"] = "insufficient_data"
                /\ ret.stages = <<"identify_related_tickets">>

\* A store that holds tickets, none of which is related to the description.
C1_Witness ==
    /\ AfterGenerate
    /\ NRows(ticket_data) > 0
    /\ IsSentinel(ret.report)
    /\ ret.stages = <<"identify_related_tickets">>

Parsed(t, i, col) == HasCol(t, col) /\ t.rows[i][col].k = "ts"

ResolutionTimeDefined(t, i) ==
    HasCol(t, "resolution_time_hours") /\ ~IsNa(t.rows[i]["resolution_time_hours"])

\* C2: after preprocess_data, resolution_time_hours of a row is defined if and
\* only if both created_at and resolved_at of the row were parsed, and it is
\* then their difference (kept here in minutes).
C2_ResolutionTimeIffBothParsed ==
    AfterPreprocess =>
        \A i \in 1..NRows(df) :
            /\ ResolutionTimeDefined(df, i)
                  <=> (Parsed(df, i, "created_at") /\ Parsed(df, i, "resolved_at"))
            /\ ResolutionTimeDefined(df, i) =>
                  df.rows[i]["resolution_time_hours"]
                     = Dur(df.rows[i]["resolved_at"].n - df.rows[i]["created_at"].n)

\* A 2-digit year is taken in the 2000s.
YearOf(y) == StrToInt(IF Len(y) = 2 THEN "20" \o y ELSE y)

\* The calendar dates the leftmost n1/n2/y (or n1-n2-y) of the text names,
\* read day first or month first.
WellFormedDates(text) ==
    LET g == DateSearch(text)
    IN IF g = <<>> THEN {}
       ELSE {Ts(Stamp(YearOf(g[3]), md[1], md[2], 0, 0)) :
                md \in {x \in {<<StrToInt(g[1]), StrToInt(g[2])>>, <<StrToInt(g[2]), StrToInt(g[1])>>} :
                          ValidDate(YearOf(g[3]), x[1], x[2])}}

\* The tickets of the store created within the window around the anchor.
WindowAround(store, anchor, window) ==
    {i \in 1..NRows(store) :
        /\ store.rows[i]["created_at"].k = "ts"
        /\ anchor.n - window * MinutesPerDay <= store.rows[i]["created_at"].n
        /\ store.rows[i]["created_at"].n <= anchor.n + window * MinutesPerDay}

\* C3: for a description that contains a well-formed date the locator works
\* in time-window mode: the related set is the tickets created within the
\* window around that date.
C3_DateSelectsTimeWindow ==
    (AfterIdentify /\ HasCol(ticket_data, "created_at") /\ WellFormedDates(call.text) # {}) =>
        /\ ~IsRaised(ret)
        /\ \E anchor \in WellFormedDates(call.text) :
              \A i \in 1..NRows(ticket_data) :
                  InResult(ret, ticket_data, i) <=> i \in WindowAround(ticket_data, anchor, call.window)

\* C4: in time-window mode a ticket of the store is in the related set if and
\* only if anchor - window <= created_at <= anchor + window, both ends
\* included, and it is there as the store holds it; with the anchor of
\* "3/1/2024" and a window of 3 days a ticket created on 2024-02-28 is
\* related and one created on 2024-03-05 is not.
C4_TimeWindowInclusive ==
    (AfterIdentify /\ HasCol(ticket_data, "created_at") /\ ~IsNa(IncidentDate(call.text))) =>
        /\ ~IsRaised(ret)
        /\ \A i \in 1..NRows(ticket_data) :
              InResult(ret, ticket_data, i)
                 <=> i \in WindowAround(ticket_data, IncidentDate(call.text), call.window)
        /\ \A k \in 1..NRows(ret) :
              \E i \in 1..NRows(ticket_data) :
                  ret.index[k] = ticket_data.index[i] /\ ret.rows[k] = ticket_data.rows[i]
        /\ (call.text = "Outage on 3/1/2024 affecting login" /\ call.window = 3) =>
              /\ IncidentDate(call.text) = Ts(Stamp(2024, 3, 1, 0, 0))
              /\ \A i \in 1..NRows(ticket_data) :
                    /\ ticket_data.rows[i]["created_at"] = Ts(Stamp(2024, 2, 28, 9, 0))
                          => InResult(ret, ticket_data, i)
                    /\ ticket_data.rows[i]["created_at"] = Ts(Stamp(2024, 3, 5, 10, 0))
                          => ~InResult(ret, ticket_data, i)

\* The scenario of the claim, with a ticket on each end of the window too.
C4_Witness ==
    /\ AfterIdentify
    /\ call.text = "Outage on 3/1/2024 affecting login" /\ call.window = 3
    /\ HasCol(ticket_data, "created_at")
    /\ \E i, j, k \in 1..NRows(ticket_data) :
          /\ ticket_data.rows[i]["created_at"] = Ts(Stamp(2024, 2, 28, 9, 0))
          /\ ticket_data.rows[j]["created_at"] = Ts(Stamp(2024, 3, 5, 10, 0))
          /\ ticket_data.rows[k]["created_at"] = Ts(Stamp(2024, 3, 4, 0, 0))
          /\ InResult(ret, ticket_data, i)
          /\ ~InResult(ret, ticket_data, j)
          /\ InResult(ret, ticket_data, k)

\* The words of a description that can be key terms, in text order.
CandidateTerms == [s \in IncidentTexts |-> SelectTerms(SplitWords(StripPunctuation(Lower(s)), ""))]

\* terms is a choice of the (at most 10) most frequent candidate words.
MostFrequentTerms(terms, candidates) ==
    /\ Len(terms) <= 10
    /\ Len(terms) = Cardinality(Range(terms))
    /\ Range(terms) \subseteq Range(candidates)
    /\ Len(terms) < 10 => Range(terms) = Range(candidates)
    /\ \A kept \in Range(terms), dropped \in Range(candidates) \ Range(terms) :
          CountOf(dropped, candidates) <= CountOf(kept, candidates)

FieldHasTerm(store, i, field, terms) ==
    /\ HasCol(store, field)
    /\ store.rows[i][field].k = "str"
    /\ \E term \in Range(terms) : Contains(Lower(store.rows[i][field].s), term)

\* C5: in keyword mode a ticket is in the related set if and only if its
\* short_description or its description contains, whatever the case, one of
\* the key terms: the at most 10 most frequent lower-case words of the
\* description, punctuation stripped, stopwords and words under 4 characters
\* discarded.
C5_KeywordModeSelectsByTerms ==
    (AfterIdentify /\ IsNa(IncidentDate(call.text))) =>
        /\ ~IsRaised(ret)
        /\ \A terms \in {_extract_key_terms(call.text)} :
              /\ MostFrequentTerms(terms, CandidateTerms[call.text])
              /\ \A i \in 1..NRows(ticket_data) :
                    InResult(ret, ticket_data, i)
                       <=> \/ FieldHasTerm(ticket_data, i, "short_description", terms)
                           \/ FieldHasTerm(ticket_data, i, "description", terms)
\* The related set the report of the last call was built from.
RelatedOfCall == identify_related_tickets(ticket_data, call.text, DefaultTimeWindow)

FullReportReturned == AfterGenerate /\ IsFull(ret.report)

\* a <= b on timestamps: every comparison with NaT is False.
StampLE(a, b) == a.k = "ts" /\ b.k = "ts" /\ a.n <= b.n

\* C6: the timeline of a related set is sorted, each event's timestamp being
\* <= the next event's, and building it again gives the same sequence.
C6_TimelineSorted ==
    FullReportReturned =>
        /\ \A i \in 1..(Len(ret.report.timeline) - 1) :
              StampLE(ret.report.timeline[i].timestamp, ret.report.timeline[i + 1].timestamp)
        /\ analyze_incident_timeline(RelatedOfCall) = ret.report.timeline

\* Where the label stands among the labels collected, in first-seen order.
SeenAt(all, label) == CHOOSE j \in 1..Len(all) : all[j][1] = label

TopByCount(top, all) ==
    /\ Len(top) <= 10
    /\ Len(top) = (IF Len(all) < 10 THEN Len(all) ELSE 10)
    /\ \A k \in 1..Len(top) : \E j \in 1..Len(all) : all[j] = top[k]
    /\ \A k, l \in 1..Len(top) : top[k][1] = top[l][1] => k = l
    /\ \A k \in 1..(Len(top) - 1) : top[k][2] >= top[k + 1][2]
    /\ \A k, l \in 1..Len(top) :
          (k < l /\ top[k][2] = top[l][2]) => SeenAt(all, top[k][1]) < SeenAt(all, top[l][1])
    /\ \A j \in 1..Len(all) :
          (\A k \in 1..Len(top) : top[k][1] # all[j][1]) =>
              \A k \in 1..Len(top) :
                  \/ all[j][2] < top[k][2]
                  \/ all[j][2] = top[k][2] /\ SeenAt(all, top[k][1]) < j

\* C7: system_components has at most 10 entries, in descending order of
\* count, they are the 10 labels of highest count among all labels collected,
\* and labels of equal count stand in first-seen order.
C7_TopTenComponents ==
    FullReportReturned =>
        \A all \in {AllComponents(RelatedOfCall)} :
            TopByCount(ret.report.contributing_factors.system_components, all)

\* More than ten labels were collected, and labels of equal count are kept.
C7_Witness ==
    /\ FullReportReturned
    /\ Len(AllComponents(RelatedOfCall)) > 10
    /\ Len(ret.report.contributing_factors.system_components) = 10
    /\ ret.report.contributing_factors.system_components[1][2] = 2
    /\ ret.report.contributing_factors.system_components[9][2]
          = ret.report.contributing_factors.system_components[10][2]

\* The ticket matches the category's pattern in one of its two text fields.
TicketMatches(t, i, category) ==
    \E f \in {"short_description", "description"} :
        HasCol(t, f) /\ \E k \in 1..Len(MatchedErrors(CellStr(t.rows[i][f]))) :
                            MatchedErrors(CellStr(t.rows[i][f]))[k] = category

\* C8: for each of the seven categories, common_errors counts the related
\* tickets whose short_description or description matches the category's
\* pattern, each ticket once (a category without a count stands at 0).
C8_ErrorsCountTickets ==
    FullReportReturned =>
        \A related \in {RelatedOfCall} :
            \A e \in 1..Len(error_patterns) :
                DictGet(ret.report.contributing_factors.common_errors, error_patterns[e][1], 0)
                   = Cardinality({i \in 1..NRows(related) :
                                     TicketMatches(related, i, error_patterns[e][1])})

InHighPrioritySet(c) ==
    \/ c.k = "num" /\ c.n \in {1, 2}
    \/ c.k = "str" /\ c.s \in {"1", "2", "Critical", "High"}

\* v hundredths is 100 * hp / n rounded to 2 decimals.
IsRoundedPercent(v, hp, n) ==
    /\ 2 * (v * n - 10000 * hp) <= n
    /\ 2 * (10000 * hp - v * n) <= n

\* C9: for a related set with a priority column, high_priority_percentage is
\* 100 * (tickets whose priority is in {1, 2, "1", "2", "Critical", "High"})
\* / (related tickets) rounded to 2 decimals, within [0, 100], and 0 when no
\* priority is in that set.  The percentage is kept in hundredths.
C9_HighPriorityPercentage ==
    FullReportReturned =>
        \A related \in {RelatedOfCall} :
            HasCol(related, "priority") =>
                /\ "high_priority_percentage" \in DOMAIN ret.report.impact
                /\ \A hp \in {Cardinality({i \in 1..NRows(related) :
                                              InHighPrioritySet(related.rows[i]["priority"])})} :
                      /\ IsRoundedPercent(ret.report.impact["high_priority_percentage"], hp,
                                          NRows(related))
                      /\ ret.report.impact["high_priority_percentage"] >= 0
                      /\ ret.report.impact["high_priority_percentage"] <= 10000
                      /\ hp = 0 => ret.report.impact["high_priority_percentage"] = 0

\* Two of three related tickets are of high priority: 66.67 percent.
C9_Witness ==
    /\ FullReportReturned
    /\ ret.report.related_tickets = 3
    /\ "high_priority_percentage" \in DOMAIN ret.report.impact
    /\ ret.report.impact["high_priority_percentage"] = 6667

\* C10: the recommendations of a full report start with the three baseline
\* ones in their order; the timeout one is there if and only if the timeouts
\* count is above 0, the access one if and only if the access_issues count
\* is above 0, in that order after the baseline.
C10_Recommendations ==
    (AfterFormat /\ IsFull(ret.report)) =>
        /\ ~ret.display.raised
        /\ ret.display.recommendations
              = <<RecReviewChanges, RecMonitor, RecResources>>
                \o (IF DictGet(ret.report.contributing_factors.common_errors, "timeouts", 0) > 0
                    THEN <<RecTimeout>> ELSE <<>>)
                \o (IF DictGet(ret.report.contributing_factors.common_errors, "access_issues", 0) > 0
                    THEN <<RecAccess>> ELSE <<>>)
\* The rule a hypothesis line comes from.
HypothesisKind(line) ==
    IF StartsAt(line, 1, "**Recent Changes**: ") THEN "changes"
    ELSE IF StartsAt(line, 1, "**Time-Based Pattern**: ") THEN "time"
    ELSE IF Contains(line, " tickets reported problems related to ") THEN "error"
    ELSE IF Contains(line, " tickets were related to this component.") THEN "component"
    ELSE "other"

\* The rules whose source data is not empty, in the order of precedence.
ExpectedKinds(factors) ==
    (IF factors.common_errors # <<>> THEN <<"error">> ELSE <<>>)
    \o (IF factors.system_components # <<>> THEN <<"component">> ELSE <<>>)
    \o (IF factors.related_changes # <<>> THEN <<"changes">> ELSE <<>>)
    \o (IF "peak_hours" \in DOMAIN factors.time_patterns THEN <<"time">> ELSE <<>>)

\* The line names an item of the largest count.
NamesTop(line, items, shown) ==
    \E i \in 1..Len(items) :
        /\ \A j \in 1..Len(items) : items[j][2] <= items[i][2]
        /\ StartsAt(line, 1, "**" \o (IF shown THEN ErrorDisplay(items[i][1]) ELSE items[i][1])
                             \o " Issues**: " \o IntToStr(items[i][2]) \o " tickets ")

\* C11: the hypotheses of a full report are, in this order, the one on the
\* top common-error category, the one on the top system component, the one
\* on recent changes and the one on the peak hour, each of them there if and
\* only if its own source data is not empty.
C11_HypothesesPrecedence ==
    (AfterFormat /\ IsFull(ret.report)) =>
        \A factors \in {ret.report.contributing_factors} :
            \A h \in {ret.display.hypotheses} :
                /\ [i \in 1..Len(h) |-> HypothesisKind(h[i])] = ExpectedKinds(factors)
                /\ \A i \in 1..Len(h) :
                      /\ HypothesisKind(h[i]) = "error" => NamesTop(h[i], factors.common_errors, TRUE)
                      /\ HypothesisKind(h[i]) = "component"
                            => NamesTop(h[i], factors.system_components, FALSE)

ReportKeys ==
    {"incident_description", "related_tickets", "timeline", "contributing_factors", "impact",
     "sample_tickets"}

IsSentinelOnly(report) ==
    /\ DOMAIN report = {"status", "message"}
    /\ report["status"] = "insufficient_data"

C13_StoreUnchanged ==
    [][(analyzer' # analyzer \/ call'.op = "generate_rca_report")
          => (raw' = raw /\ df' = df)]_vars

SectionHeaders ==
    <<"## Incident Overview", "\n## Impact Analysis", "\n## Incident Timeline",
      "\n## Contributing Factors", "\n### Affected System Components", "\n### Time Patterns",
      "\n### Common Errors", "\n### Related Changes", "\n## Root Cause Hypothesis",
      "\n## Recommendations">>

\* Where the line stands in the markdown, 0 when it does not or stands twice.
LineAt(markdown, line) ==
    IF Cardinality({i \in 1..Len(markdown) : markdown[i] = line}) = 1
    THEN CHOOSE i \in 1..Len(markdown) : markdown[i] = line
    ELSE 0

SectionsInOrder(markdown) ==
    /\ \A k \in 1..Len(SectionHeaders) : LineAt(markdown, SectionHeaders[k]) > 0
    /\ \A k \in 1..(Len(SectionHeaders) - 1) :
          LineAt(markdown, SectionHeaders[k]) < LineAt(markdown, SectionHeaders[k + 1])

\* The Timeline section holds one line for each of the first 10 events, in
\* the timeline's order.
TimelineSectionShows(markdown, timeline) ==
    \A first \in {LineAt(markdown, "\n## Incident Timeline")} :
        \A n \in {IF Len(timeline) < 10 THEN Len(timeline) ELSE 10} :
            /\ timeline # <<>>
                  => LineAt(markdown, "\n## Contributing Factors") = first + n + 1
            /\ \A i \in 1..n :
                  /\ Contains(markdown[first + i], "** - " \o timeline[i].event_type \o ": ")
                  /\ Contains(markdown[first + i],
                              " (" \o CellStr(timeline[i].ticket_id) \o ")")

\* C14: formatting a full report emits the sections in the fixed order, the
\* Timeline section lists the first 10 events of the timeline in timeline
\* order, and the report is left as it was given.
C14_SectionsInOrder ==
    [][(call.op = "generate_rca_report" /\ call'.op = "format_rca_report_for_display"
        /\ IsFull(ret.report))
          => /\ ret'.report = ret.report
             /\ ~ret'.display.raised
             /\ SectionsInOrder(ret'.display.markdown)
             /\ TimelineSectionShows(ret'.display.markdown, ret.report.timeline)]_vars
EndsWith(s, t) == Len(t) <= Len(s) /\ SubSeq(s, Len(s) - Len(t) + 1, Len(s)) = t

SupportedFormat(name) ==
    \E ext \in {".csv", ".xlsx", ".xls"} : EndsWith(LowerOf(name), ext)

\* C15: loading a file whose format is none of csv, xlsx, xls raises and
\* gives no table, a file of a supported format is read; in preprocess_data a
\* bad date or an unparseable priority becomes a missing value, no row is
\* lost and nothing is raised.
C15_OnlyUnsupportedFormatRaises ==
    /\ (pc = "returned" /\ call.op = "load_data") =>
          IF SupportedFormat(call.text)
          THEN ~IsRaised(ret) /\ ret \in RawTables /\ raw = ret
          ELSE ret = Raised("ValueError") /\ raw = EmptyTable
    /\ AfterPreprocess =>
          /\ ~IsRaised(ret)
          /\ NRows(df) = NRows(raw)
          /\ \A i \in 1..NRows(df) :
                /\ \A c \in {"created_at", "resolved_at", "updated_at", "closed_at"} :
                      HasCol(df, c) => df.rows[i][c].k \in {"ts", "nan"}
                /\ HasCol(df, "priority") => df.rows[i]["priority"].k \in {"num", "nan"}

\* A bad date and an unparseable priority of the file were absorbed.
C15_Witness ==
    /\ AfterPreprocess
    /\ HasCol(raw, "created_at") /\ HasCol(raw, "priority")
    /\ \E i \in 1..NRows(raw) :
          raw.rows[i]["created_at"] = Str("n/a") /\ IsNa(df.rows[i]["created_at"])
    /\ \E i \in 1..NRows(raw) :
          raw.rows[i]["priority"] = Str("Urgent") /\ IsNa(df.rows[i]["priority"])
\* Where the row labelled l stands in the store, 0 when it is not there.
PlaceOf(store, l) ==
    IF \E i \in 1..NRows(store) : store.index[i] = l
    THEN CHOOSE i \in 1..NRows(store) : store.index[i] = l
    ELSE 0

\* C16: in both locator modes the related set is a sub-sequence of the
\* store: every related ticket is a ticket of the store, none is there
\* twice, and related tickets stand in the order they have in the store.
C16_RelatedIsSubsequence ==
    (AfterIdentify /\ ~IsRaised(ret)) =>
        \A store \in {ticket_data} :
            /\ ret.cols = store.cols
            /\ \A k \in 1..NRows(ret) :
                  /\ PlaceOf(store, ret.index[k]) > 0
                  /\ ret.rows[k] = store.rows[PlaceOf(store, ret.index[k])]
            /\ \A k, l \in 1..NRows(ret) :
                  k < l => PlaceOf(store, ret.index[k]) < PlaceOf(store, ret.index[l])

\* The first and the last of three tickets are related, in keyword mode.
C16_Witness ==
    /\ AfterIdentify /\ ~IsRaised(ret)
    /\ IsNa(IncidentDate(call.text))
    /\ NRows(ticket_data) = 3
    /\ ret.index = <<0, 2>>
\* The events of the given type that carry the id and the timestamp.
EventsLike(timeline, event_type, ticket_id, timestamp) ==
    {k \in 1..Len(timeline) :
        /\ timeline[k].event_type = event_type
        /\ timeline[k].ticket_id = ticket_id
        /\ timeline[k].timestamp = timestamp}

\* The tickets that emit an event of the type read from column col: all of
\* them, or only those whose value is not missing.
Emitters(related, col, always) ==
    IF HasCol(related, col)
    THEN {i \in 1..NRows(related) : always \/ ~IsNa(related.rows[i][col])}
    ELSE {}

\* The timeline holds one event of the type for each emitter, with the
\* ticket's id and the value of its column, and no other event of the type.
EventsMatch(timeline, related, event_type, col, always) ==
    /\ Cardinality({k \in 1..Len(timeline) : timeline[k].event_type = event_type})
          = Cardinality(Emitters(related, col, always))
    /\ \A i \in Emitters(related, col, always) :
          Cardinality(EventsLike(timeline, event_type, Get(related, i, "number", Str("")),
                                 related.rows[i][col]))
             = Cardinality({j \in Emitters(related, col, always) :
                               /\ Get(related, j, "number", Str(""))
                                     = Get(related, i, "number", Str(""))
                               /\ related.rows[j][col] = related.rows[i][col]})

\* C17: for every related ticket the timeline holds a Created event exactly
\* when the store has a created_at column, a Resolved event exactly when it
\* has a resolved_at column and the ticket's value is not missing, an Updated
\* event exactly when it has an updated_at column and the ticket's value is
\* not missing; there is no other event, and each event carries the id of
\* its ticket.
C17_TimelineEvents ==
    FullReportReturned =>
        \A related \in {RelatedOfCall} :
            \A timeline \in {ret.report.timeline} :
                /\ EventsMatch(timeline, related, "Ticket Created", "created_at", TRUE)
                /\ EventsMatch(timeline, related, "Ticket Resolved", "resolved_at", FALSE)
                /\ EventsMatch(timeline, related, "Ticket Updated", "updated_at", FALSE)
                /\ \A k \in 1..Len(timeline) :
                      timeline[k].event_type
                         \in {"Ticket Created", "Ticket Resolved", "Ticket Updated"}

\* A ticket whose created_at is missing has its Created event, and a ticket
\* whose resolved_at is missing has no Resolved event.
C17_Witness ==
    /\ FullReportReturned
    /\ \E k \in 1..Len(ret.report.timeline) :
          /\ ret.report.timeline[k].event_type = "Ticket Created"
          /\ IsNa(ret.report.timeline[k].timestamp)
    /\ \E k \in 1..Len(ret.report.timeline) :
          ret.report.timeline[k].event_type = "Ticket Updated"
    /\ HasCol(ticket_data, "resolved_at")
    /\ Cardinality({k \in 1..Len(ret.report.timeline) :
                       ret.report.timeline[k].event_type = "Ticket Resolved"})
          < ret.report.related_tickets
\* The events in the order they are emitted: per type, per ticket.
EmittedEvents(related) ==
    CreatedEvents(related) \o ResolvedEvents(related) \o UpdatedEvents(related)

\* The occurrences of the two events in the sequence, in its order.
Occurrences(q, x, y) == FilterIdx(q, [i \in 1..Len(q) |-> q[i] \in {x, y}], 1)

\* C18: the timeline sort is stable: two events of equal timestamps stand in
\* the timeline in the order in which they were emitted.
C18_StableSort ==
    FullReportReturned =>
        \A emitted \in {EmittedEvents(RelatedOfCall)} :
            \A x, y \in Range(emitted) :
                (x # y /\ x.timestamp.k = "ts" /\ x.timestamp = y.timestamp)
                   => Occurrences(ret.report.timeline, x, y) = Occurrences(emitted, x, y)
\* The canonical fields of the synonym table, and the synonyms of one.
CanonicalNames == {column_mapping[k][2] : k \in 1..Len(column_mapping)}

SynonymsOf(canonical) ==
    {column_mapping[k][1] : k \in {j \in 1..Len(column_mapping) : column_mapping[j][2] = canonical}}

\* The synonym to rename among the given column names: the first of the
\* table's order, if the canonical name is not there already.
RenamedFor(canonical, names) ==
    IF canonical \in names \/ SynonymsOf(canonical) \cap names = {}
    THEN {}
    ELSE {column_mapping[CHOOSE k \in 1..Len(column_mapping) :
                            /\ column_mapping[k][2] = canonical
                            /\ column_mapping[k][1] \in names
                            /\ \A j \in 1..(k - 1) :
                                  ~(column_mapping[j][2] = canonical
                                    /\ column_mapping[j][1] \in names)][1]}

\* The columns preprocess_data rewrites after the remapping.
RewrittenColumns ==
    {"created_at", "resolved_at", "updated_at", "closed_at", "status", "priority",
     "resolution_time_hours"}

\* C19: after the synonym remapping at most one column has each canonical
\* name; of several synonyms of a field the first of the table's order is
\* renamed and the others keep their names; a column that has the canonical
\* name already is kept, with its values, and no synonym is renamed to it.
C19_FirstSynonymWins ==
    AfterPreprocess =>
        \A names \in {[p \in 1..Len(raw.cols) |-> ReplaceCh(LowerOf(raw.cols[p]), " ", "_")]} :
            /\ \A canonical \in CanonicalNames :
                  Cardinality({p \in 1..Len(df.cols) : df.cols[p] = canonical}) <= 1
            /\ \A p \in 1..Len(names) :
                  /\ df.cols[p] = (IF \E canonical \in CanonicalNames :
                                         names[p] \in RenamedFor(canonical, Range(names))
                                   THEN CHOOSE canonical \in CanonicalNames :
                                           names[p] \in RenamedFor(canonical, Range(names))
                                   ELSE names[p])
                  /\ df.cols[p] \notin RewrittenColumns
                        => \A i \in 1..NRows(df) :
                              df.rows[i][df.cols[p]] = raw.rows[i][raw.cols[p]]

\* Title and Summary, Open Time and Opened At, description and Details were
\* in the file: summary and opened_at were renamed, details was not.
C19_Witness ==
    /\ AfterPreprocess
    /\ NRows(df) = 2
    /\ raw.cols = <<"ID", "Title", "Summary", "description", "Details", "Open Time", "Opened At">>
    /\ SubSeq(df.cols, 1, 7)
          = <<"number", "title", "short_description", "description", "details", "open_time",
              "created_at">>
    /\ df.rows[1]["short_description"] = raw.rows[1]["Summary"]
\* C20: in time-window mode, on a store without a created_at column,
\* identify_related_tickets returns the entire store, every ticket in store
\* order, and does not raise.
C20_NoCreatedAtReturnsStore ==
    (AfterIdentify /\ ~IsNa(IncidentDate(call.text)) /\ ~HasCol(ticket_data, "created_at")) =>
        /\ ~IsRaised(ret)
        /\ ret.cols = ticket_data.cols
        /\ ret.index = ticket_data.index
        /\ ret.rows = ticket_data.rows

\* A dated description on a store of three tickets without created_at.
C20_Witness ==
    /\ AfterIdentify
    /\ call.text = "Outage on 3/1/2024 affecting login"
    /\ ~HasCol(ticket_data, "created_at")
    /\ NRows(ticket_data) = 3
    /\ ~IsRaised(ret)
    /\ NRows(ret) = 3
AfterTimePatterns == pc = "returned" /\ call.op = "_analyze_time_patterns"

\* The related tickets created in hour h.
HourCount(related, h) ==
    Cardinality({i \in 1..NRows(related) : related.rows[i]["created_hour"] = Num(h)})

RECURSIVE SquaredDeviations(_, _, _, _)
\* The sum over the hours 0..h that occur of (k * count - total) ^ 2.
SquaredDeviations(related, h, k, total) ==
    IF h < 0 THEN 0
    ELSE (IF HourCount(related, h) > 0
          THEN (k * HourCount(related, h) - total) * (k * HourCount(related, h) - total)
          ELSE 0)
         + SquaredDeviations(related, h - 1, k, total)

\* count(h) > mean + stddev over the hours that occur, k of them with total
\* tickets; the standard deviation is the sample one, undefined for k = 1.
IsPeakHour(related, h, k, total) ==
    /\ k >= 2
    /\ k * HourCount(related, h) > total
    /\ (k * HourCount(related, h) - total) * (k * HourCount(related, h) - total) * (k - 1)
          > SquaredDeviations(related, 23, k, total)

\* The dict holds exactly the values of the column that occur, each with the
\* number of tickets that have it.
CountsOfColumn(d, related, col) ==
    /\ \A e \in 1..Len(d) :
          /\ d[e][2] = Cardinality({i \in 1..NRows(related) : related.rows[i][col] = d[e][1]})
          /\ d[e][2] > 0
          /\ \A f \in 1..Len(d) : d[f][1] = d[e][1] => f = e
    /\ \A i \in 1..NRows(related) :
          ~IsNa(related.rows[i][col]) => \E e \in 1..Len(d) : d[e][1] = related.rows[i][col]

\* C21: an hour h is reported in peak_hours, with its ticket count, if and
\* only if the number of related tickets created in hour h is strictly
\* greater than mean + 1 x stddev of the per-hour counts of the related set;
\* day_distribution maps every weekday name that occurs to its ticket count.
C21_PeakHours ==
    AfterTimePatterns =>
        \A related \in {ticket_data} :
            \A k \in {Cardinality({h \in 0..23 : HourCount(related, h) > 0})} :
                \A total \in {Cardinality({i \in 1..NRows(related) :
                                              ~IsNa(related.rows[i]["created_hour"])})} :
                    /\ \A h \in 0..23 :
                          IsPeakHour(related, h, k, total)
                             <=> /\ "peak_hours" \in DOMAIN ret.patterns
                                 /\ \E e \in 1..Len(ret.patterns["peak_hours"]) :
                                       ret.patterns["peak_hours"][e]
                                          = <<Num(h), HourCount(related, h)>>
                    /\ "peak_hours" \in DOMAIN ret.patterns =>
                          \A e \in 1..Len(ret.patterns["peak_hours"]) :
                              \E h \in 0..23 : ret.patterns["peak_hours"][e][1] = Num(h)
                    /\ "day_distribution" \in DOMAIN ret.patterns
                    /\ CountsOfColumn(ret.patterns["day_distribution"], related, "created_day")

\* Of four tickets two were created in hour 9, one in hour 10 and one in
\* hour 0: hour 9 is the peak; two of them were created on a Tuesday.
C21_Witness ==
    /\ AfterTimePatterns
    /\ NRows(ticket_data) = 4
    /\ "peak_hours" \in DOMAIN ret.patterns
    /\ ret.patterns["peak_hours"] = <<<<Num(9), 2>>>>
    /\ \E e \in 1..Len(ret.patterns["day_distribution"]) :
          ret.patterns["day_distribution"][e] = <<Str("Tuesday"), 2>>
\* The description matches one of the three change patterns.
MatchesChangePattern(text) ==
    \E p \in 1..Len(change_patterns) :
        \E a \in 1..Len(change_patterns[p]) : ContainsNoCase(text, change_patterns[p][a])

\* The span is a match of one of the change patterns inside the text.
IsMatchedSpan(span, text) ==
    /\ Contains(text, span)
    /\ \E p \in 1..Len(change_patterns) :
          \E a \in 1..Len(change_patterns[p]) : Lower(span) = change_patterns[p][a]

\* C22: related_changes holds, per related ticket, one entry from the
\* category detector exactly when its category contains "change" (any case)
\* and one entry, with the matched span as evidence, from the description
\* detector exactly when its description matches any of the three change
\* patterns: two entries when both fire, never more than two per ticket.
C22_RelatedChanges ==
    FullReportReturned =>
        \A related \in {RelatedOfCall} :
            \A changes \in {ret.report.contributing_factors.related_changes} :
                \A id \in {Get(related, i, "number", Str("")) : i \in 1..NRows(related)} :
                    /\ Cardinality({e \in 1..Len(changes) :
                                       changes[e].ticket_id = id /\ changes[e].evidence = ""})
                          = Cardinality({i \in 1..NRows(related) :
                                            /\ Get(related, i, "number", Str("")) = id
                                            /\ HasCol(related, "category")
                                            /\ CellContains(related.rows[i]["category"], "change")})
                    /\ Cardinality({e \in 1..Len(changes) :
                                       changes[e].ticket_id = id /\ changes[e].evidence # ""})
                          = Cardinality({i \in 1..NRows(related) :
                                            /\ Get(related, i, "number", Str("")) = id
                                            /\ HasCol(related, "description")
                                            /\ MatchesChangePattern(
                                                   CellStr(related.rows[i]["description"]))})
                    /\ \A e \in 1..Len(changes) :
                          changes[e].ticket_id = id /\ changes[e].evidence # "" =>
                              \E i \in 1..NRows(related) :
                                  /\ Get(related, i, "number", Str("")) = id
                                  /\ IsMatchedSpan(changes[e].evidence,
                                                   CellStr(related.rows[i]["description"]))
\* The table without the columns outside S.
Project(t, S) ==
    [cols |-> FilterIdx(t.cols, [i \in 1..Len(t.cols) |-> t.cols[i] \in S], 1),
     index |-> t.index,
     rows |-> [r \in 1..Len(t.rows) |-> [c \in Range(t.cols) \cap S |-> t.rows[r][c]]],
     object |-> t.object \cap S]

\* No key of the dict starts with the prefix.
NoKeyWith(d, prefix) == \A e \in 1..Len(d) : ~StartsAt(d[e][1], 1, prefix)

\* What each sub-analysis gives when its column is absent.
AbsentGivesEmpty(related, report) ==
    /\ ~HasCol(related, "created_at") =>
          /\ \A e \in 1..Len(report.timeline) :
                report.timeline[e].event_type # "Ticket Created"
          /\ DOMAIN report.contributing_factors.time_patterns = {}
    /\ ~HasCol(related, "resolved_at") =>
          \A e \in 1..Len(report.timeline) : report.timeline[e].event_type # "Ticket Resolved"
    /\ ~HasCol(related, "updated_at") =>
          \A e \in 1..Len(report.timeline) : report.timeline[e].event_type # "Ticket Updated"
    /\ ~HasCol(related, "category") =>
          /\ NoKeyWith(report.contributing_factors.system_components, "Category: ")
          /\ \A e \in 1..Len(report.contributing_factors.related_changes) :
                report.contributing_factors.related_changes[e].evidence # ""
    /\ ~HasCol(related, "subcategory") =>
          NoKeyWith(report.contributing_factors.system_components, "Subcategory: ")
    /\ ~HasCol(related, "description") =>
          /\ \A e \in 1..Len(report.contributing_factors.system_components) :
                \/ StartsAt(report.contributing_factors.system_components[e][1], 1, "Category: ")
                \/ StartsAt(report.contributing_factors.system_components[e][1], 1, "Subcategory: ")
          /\ \A e \in 1..Len(report.contributing_factors.related_changes) :
                report.contributing_factors.related_changes[e].evidence = ""
    /\ ~HasCol(related, "description") /\ ~HasCol(related, "short_description") =>
          report.contributing_factors.common_errors = <<>>
    /\ ~HasCol(related, "priority") =>
          /\ "priority_distribution" \notin DOMAIN report.impact
          /\ "high_priority_percentage" \notin DOMAIN report.impact

\* Each sub-analysis gives what it gives on its own columns alone.
OthersUnaffected(related, report) ==
    /\ report.timeline
          = analyze_incident_timeline(Project(related,
                {"created_at", "resolved_at", "updated_at", "number", "short_description",
                 "resolution", "status"}))
    /\ report.contributing_factors.time_patterns
          = _analyze_time_patterns(Project(related, {"created_hour", "created_day"}))
    /\ report.contributing_factors.system_components
          = _extract_system_components(Project(related,
                {"category", "subcategory", "description"}))
    /\ report.contributing_factors.common_errors
          = _extract_common_errors(Project(related, {"short_description", "description"}))
    /\ report.contributing_factors.related_changes
          = _identify_related_changes(Project(related,
                {"category", "description", "number", "short_description", "created_at"}))
    /\ report.impact
          = analyze_impact(Project(related,
                {"priority", "affected_user", "resolution_time_hours"}))

\* C23: for a non-empty related set lacking any subset of the columns
\* created_at, category, subcategory, short_description, description,
\* priority, resolved_at and updated_at, report generation does not fail;
\* each sub-analysis whose column is absent yields an empty result and the
\* others are unaffected.
C23_AbsentColumnsDegrade ==
    AfterGenerate =>
        \A related \in {RelatedOfCall} :
            ~IsRaised(related) /\ NRows(related) > 0 =>
                /\ IsFull(ret.report)
                /\ AbsentGivesEmpty(related, ret.report)
                /\ OthersUnaffected(related, ret.report)
\* The calendar date of the leftmost n1/n2/y of the text with n1 the day and
\* n2 the month, NaT when the text has no such date.
DayFirstDate(text) ==
    LET g == DateSearch(text)
    IN IF g = <<>> THEN NaN
       ELSE IF ValidDate(YearOf(g[3]), StrToInt(g[2]), StrToInt(g[1]))
       THEN Ts(Stamp(YearOf(g[3]), StrToInt(g[2]), StrToInt(g[1]), 0, 0))
       ELSE NaN

\* C24: the date of an incident text matching n1/n2/y (or with '-') is read
\* day first, month second, a 2-digit year yy as 20yy, and the anchor of the
\* time window is that calendar date.
C24_DayFirstAnchor ==
    (AfterIdentify /\ HasCol(ticket_data, "created_at") /\ ~IsNa(DayFirstDate(call.text))) =>
        /\ ~IsRaised(ret)
        /\ \A i \in 1..NRows(ticket_data) :
              InResult(ret, ticket_data, i)
                 <=> i \in WindowAround(ticket_data, DayFirstDate(call.text), call.window)
\* The columns whose values preprocess_data rewrites.
RewrittenValues ==
    {"created_at", "resolved_at", "updated_at", "closed_at", "status", "priority",
     "resolution_time_hours"}

\* C25: preprocess_data never drops or reorders rows: its output has the rows
\* of its input, as many and in the same order, whatever values fail to parse.
C25_RowsKept ==
    AfterPreprocess =>
        /\ NRows(ret) = NRows(raw)
        /\ ret.index = raw.index
        /\ Len(ret.cols) >= Len(raw.cols)
        /\ \A i \in 1..NRows(raw) :
              \A j \in 1..Len(raw.cols) :
                  ret.cols[j] \notin RewrittenValues =>
                      ret.rows[i][ret.cols[j]] = raw.rows[i][raw.cols[j]]

\* Three different tickets were preprocessed, in an order that is not the
\* order of their numbers; the creation date of one and the resolution date
\* of another did not parse, and one priority was not recognised.
C25_Witness ==
    /\ AfterPreprocess
    /\ NRows(ret) = 3
    /\ ret.rows[1]["number"] = Str("INC3")
    /\ ret.rows[2]["number"] = Str("INC5")
    /\ ret.rows[3]["number"] = Str("INC4")
    /\ HasCol(ret, "created_at") /\ IsNa(ret.rows[1]["created_at"])
    /\ HasCol(ret, "resolved_at") /\ IsNa(ret.rows[2]["resolved_at"])
    /\ HasCol(ret, "priority") /\ IsNa(ret.rows[3]["priority"])
\* C26: report generation honours the caller's inputs to the locator: the
\* window of the time-window filtering is the window size the caller
\* supplied, and the incident date the caller supplied is the anchor, in
\* place of any date of the text; the report is that of the tickets created
\* within the supplied window around the supplied date.
C26_CallerInputsHonoured ==
    (AfterGenerate /\ HasCol(ticket_data, "created_at")) =>
        \A expected \in {WindowAround(ticket_data, call.date, call.window)} :
            /\ IsSentinel(ret.report) => expected = {}
            /\ IsFull(ret.report) =>
                  /\ ret.report.related_tickets = Cardinality(expected)
                  /\ \A i \in 1..NRows(ticket_data) :
                        i \in expected => InResult(RelatedOfCall, ticket_data, i)
\* C27: in time-window mode on a store that has a created_at column, a
\* ticket whose created_at is missing is never in the related set, whatever
\* the anchor and the window.
C27_MissingCreatedNeverRelated ==
    (AfterIdentify /\ HasCol(ticket_data, "created_at") /\ ~IsNa(IncidentDate(call.text))) =>
        /\ ~IsRaised(ret)
        /\ \A i \in 1..NRows(ticket_data) :
              IsNa(ticket_data.rows[i]["created_at"]) => ~InResult(ret, ticket_data, i)

\* Of two tickets the one created within the window is related and the one
\* whose creation date did not parse is not.
C27_Witness ==
    /\ AfterIdentify
    /\ HasCol(ticket_data, "created_at") /\ ~IsNa(IncidentDate(call.text))
    /\ NRows(ticket_data) = 2
    /\ IsNa(ticket_data.rows[1]["created_at"])
    /\ ticket_data.rows[1]["number"] = Str("INC3")
    /\ ~InResult(ret, ticket_data, 1)
    /\ InResult(ret, ticket_data, 2)
\* C28: when no date is taken from the incident text and the text yields no
\* key term (its words are all stopwords or shorter than four characters, or
\* it has none), or the store has neither a short_description nor a
\* description column, keyword mode selects no ticket and
\* generate_rca_report returns the insufficient_data sentinel.
C28_NothingToMatchGivesSentinel ==
    ((AfterIdentify \/ AfterGenerate)
        /\ IsNa(IncidentDate(call.text))
        /\ \/ CandidateTerms[call.text] = <<>>
           \/ ~HasCol(ticket_data, "short_description") /\ ~HasCol(ticket_data, "description")) =>
        /\ AfterIdentify => ~IsRaised(ret) /\ NRows(ret) = 0
        /\ AfterGenerate => IsSentinelOnly(ret.report)

\* "is it on" names no date and no key term: on a store of three tickets
\* with both text columns the report is the sentinel.
C28_Witness ==
    /\ AfterGenerate
    /\ call.text = "is it on"
    /\ NRows(ticket_data) = 3
    /\ HasCol(ticket_data, "short_description") /\ HasCol(ticket_data, "description")
    /\ \E i \in 1..3 : ticket_data.rows[i]["description"].k = "str"
    /\ IsSentinelOnly(ret.report)
\* The text matches the numeric date pattern and the three numbers name no
\* calendar date, read day first or month first.
NamesNoCalendarDate(text) == DateSearch(text) # <<>> /\ WellFormedDates(text) = {}

\* C29: when the incident text matches the numeric date pattern but the
\* three numbers do not form a valid calendar date, identify_related_tickets
\* does not raise and uses no anchor date: it returns what keyword mode
\* returns for the text, the tickets holding one of its key terms.
C29_InvalidDateFallsBackToKeywords ==
    (AfterIdentify /\ NamesNoCalendarDate(call.text)) =>
        /\ ~IsRaised(ret)
        /\ ret.cols = ticket_data.cols
        /\ \A i \in 1..NRows(ticket_data) :
              InResult(ret, ticket_data, i)
                 <=> \/ FieldHasTerm(ticket_data, i, "short_description", CandidateTerms[call.text])
                     \/ FieldHasTerm(ticket_data, i, "description", CandidateTerms[call.text])
\* C30: every event in the timeline of a full report has a timestamp that
\* is not missing: a ticket whose created_at, resolved_at or updated_at is
\* missing contributes no event of that type.
C30_EventsHaveTimestamps ==
    FullReportReturned =>
        \A related \in {RelatedOfCall} :
            \A timeline \in {ret.report.timeline} :
                /\ \A k \in 1..Len(timeline) : ~IsNa(timeline[k].timestamp)
                /\ Cardinality({k \in 1..Len(timeline) :
                                   timeline[k].event_type = "Ticket Created"})
                      = Cardinality(Emitters(related, "created_at", FALSE))
                /\ Cardinality({k \in 1..Len(timeline) :
                                   timeline[k].event_type = "Ticket Resolved"})
                      = Cardinality(Emitters(related, "resolved_at", FALSE))
                /\ Cardinality({k \in 1..Len(timeline) :
                                   timeline[k].event_type = "Ticket Updated"})
                      = Cardinality(Emitters(related, "updated_at", FALSE))

====
